---- MODULE Spec2Model ----
(***************************************************************************)
(* Model of the SourcePawn front end: the expression code generator        *)
(* (src/compiler/code-generator.cpp) and the recursive-descent parser      *)
(* (src/v2/parser.cpp).                                                    *)
(*                                                                         *)
(* The code generator is modelled as a function from an annotated          *)
(* expression tree and an emitter state to an emitter state; the emitter   *)
(* state holds the trace of primitive calls, the label counter and the     *)
(* heap-list stack.  The parser is modelled as a function from a parser    *)
(* state (scanner position, diagnostics, flags) to a parser state carrying *)
(* the node the production returned.                                       *)
(***************************************************************************)
EXTENDS Integers, Sequences, FiniteSets, TLC

VARIABLES
  expr,    \* code generator: the annotated expression handed to the generator
  mode,    \* code generator: which entry point is invoked on expr
  em,      \* code generator: the emitter (trace, label counter, heap list)
  toks,    \* parser: the raw token stream given to the scanner
  entry,   \* parser: which production is invoked, with its flags
  ps,      \* parser: the parser state (scanner position, diagnostics, result)
  pc       \* "start" before the operation ran, "done" after it

vars == <<expr, mode, em, toks, entry, ps, pc>>

RECURSIVE Expr_Emit(_, _), DoEmit(_, _), EmitTest(_, _, _, _, _)
RECURSIVE FlattenLogical(_, _), FlattenChainedCompares(_)
RECURSIVE EmitTestLoop(_, _, _, _, _, _, _), EmitChainLoop(_, _, _, _)
RECURSIVE EmitArgs(_, _, _), EmitAll(_, _)

(***************************************************************************)
(* Emitter primitives.  Each one appends its call to the trace; the heap   *)
(* list primitives also keep the stack of heap frames.                     *)
(***************************************************************************)
EmitterInit == [trace |-> <<>>, nlabel |-> 0, heap |-> <<>>, herr |-> FALSE]

Out(e, ins) == [e EXCEPT !.trace = Append(@, ins)]

ldconst(e, v, reg) == Out(e, <<"ldconst", v, reg>>)
pushreg(e, reg) == Out(e, <<"pushreg", reg>>)
popreg(e, reg) == Out(e, <<"popreg", reg>>)
rvalue(e, val) == Out(e, <<"rvalue", val.sym>>)
store(e, val) == Out(e, <<"store", val.sym>>)
address(e, sym, reg) == Out(e, <<"address", sym, reg>>)
jmp_ne0(e, lbl) == Out(e, <<"jmp_ne0", lbl>>)
jmp_eq0(e, lbl) == Out(e, <<"jmp_eq0", lbl>>)
jumplabel(e, lbl) == Out(e, <<"jumplabel", lbl>>)
setlabel(e, lbl) == Out(e, <<"setlabel", lbl>>)
emit_userop(e, userop) == Out(e, <<"userop", userop>>)
emit_oper(e, oper) == Out(e, <<"oper", oper>>)
Simple(e, name) == Out(e, <<name>>)

\* getlabel(): the emitter hands out fresh label ids.
getlabel(e) == [e EXCEPT !.nlabel = @ + 1]
lastlabel(e) == e.nlabel

pushheaplist(e) == [Out(e, <<"pushheaplist">>) EXCEPT !.heap = Append(@, 0)]

\* The total of static allocations of the innermost frame.
heaptotal(e) == IF Len(e.heap) = 0 THEN 0 ELSE e.heap[Len(e.heap)]

dropframe(e) ==
  IF Len(e.heap) = 0 THEN [e EXCEPT !.herr = TRUE]
  ELSE [e EXCEPT !.heap = SubSeq(@, 1, Len(@) - 1)]

pop_static_heaplist(e) == dropframe(Out(e, <<"pop_static_heaplist">>))
popheaplist(e, scrap) == dropframe(Out(e, <<"popheaplist", scrap>>))

markheap(e, kind, size) ==
  LET e1 == Out(e, <<"markheap", kind, size>>)
  IN IF kind = "MEMUSE_STATIC" /\ Len(e1.heap) > 0
       THEN [e1 EXCEPT !.heap[Len(e1.heap)] = @ + size]
       ELSE e1

trackstatic(e, size) ==
  IF Len(e.heap) > 0 THEN [e EXCEPT !.heap[Len(e.heap)] = @ + size] ELSE e

setheap_pri(e) == trackstatic(Out(e, <<"setheap_pri">>), 1)
setheap(e, v) == Out(e, <<"setheap", v>>)
setheap_save(e, bytes) == Out(e, <<"setheap_save", bytes>>)
modheap(e, bytes) == Out(e, <<"modheap", bytes>>)
memcopy(e, bytes) == Out(e, <<"memcopy", bytes>>)
ffcall(e, sym, argc) == Out(e, <<"ffcall", sym, argc>>)
ffbounds(e, max) == Out(e, <<"ffbounds", max>>)
\* ffbounds(): the overload without an argument.
ffbounds_(e) == Out(e, <<"ffbounds">>)
markexpr(e) == Out(e, <<"markexpr", "sPARM">>)
markusage(e, sym, flag) == Out(e, <<"markusage", sym, flag>>)
invoke_getter(e, acc) == Out(e, <<"invoke_getter", acc>>)
invoke_setter(e, acc, save) == Out(e, <<"invoke_setter", acc, save>>)
setdefarray(e, sym) == Out(e, <<"setdefarray", sym>>)
load_glbfn(e, sym) == Out(e, <<"load_glbfn", sym>>)
assert_false(e) == Out(e, <<"assert_false">>)

CellSize == 4
sCHARBITS == 8

(***************************************************************************)
(* Token classes and operator tables used by the generator.                *)
(***************************************************************************)
NoOper == "none"
NoSym == "none"

IsChainedOp(token) == token \in {"tlGE", "tlLE", ">", "<"}

IsAssignOp(token) ==
  token \in {"=", "taADD", "taSUB", "taMULT", "taDIV", "taMOD",
             "taAND", "taOR", "taXOR", "taSHL", "taSHR", "taSHRU"}

commutative(oper) ==
  oper \in {"ob_add", "os_mult", "ob_eq", "ob_ne", "ob_and", "ob_xor", "ob_or"}

(***************************************************************************)
(* The generator's functions.  Each one maps an expression and the emitter *)
(* state on entry to the set of emitter states it can return in; the       *)
(* generator is deterministic, so the set has one element.  A body runs    *)
(* its calls in program order: { F(m1) : m1 \in G(e, m) } is "call G, then *)
(* do F on the state it left".                                             *)
(***************************************************************************)
\* Mutant of Expr::Emit: a constant is emitted by its node.
Expr_Emit_NoConstant(e, m) == DoEmit(e, m)

\* Expr::Emit
Expr_Emit(e, m) ==
  IF e.val.ident = "CONSTEXPR"
    THEN {ldconst(m, e.val.constval, "PRI")}
    ELSE DoEmit(e, m)

\* Expr::EmitTest
Expr_EmitTest(e, m, jump_on_true, taken, fallthrough) ==
  {IF jump_on_true THEN jmp_ne0(m1, taken) ELSE jmp_eq0(m1, taken)
     : m1 \in Expr_Emit(e, m)}

\* IsDefinedExpr, NullExpr, NumberExpr, FloatExpr, SizeofExpr: assert(false).
ConstOnly_DoEmit(e, m) == {assert_false(m)}

IncOrDec(e, m, inc, dec) ==
  IF e.token = "tINC" THEN Out(m, <<inc, e.expr.val.sym>>)
  ELSE Out(m, <<dec, e.expr.val.sym>>)

UnaryExpr_DoEmit(e, m) ==
  {IF e.userop # NoSym THEN m1
   ELSE CASE e.token = "~" -> Simple(m1, "invert")
          [] e.token = "!" -> Simple(m1, "lneg")
          [] e.token = "-" -> Simple(m1, "neg")
          [] OTHER -> assert_false(m1)
     : m1 \in Expr_Emit(e.expr, m)}

\* Mutant of PreIncExpr::DoEmit: the saved object is not popped before the
\* setter is invoked.
PreIncExpr_DoEmit_KeepsObject(e, m) ==
  LET val == e.expr.val
      Rest(m1) ==
        IF val.ident # "ACCESSOR"
          THEN rvalue(IF e.userop # NoSym THEN emit_userop(m1, e.userop)
                      ELSE IncOrDec(e, m1, "inc", "dec"),
                      val)
          ELSE LET m2 == invoke_getter(pushreg(m1, "PRI"), val.accessor)
                   m3 == IF e.userop # NoSym THEN emit_userop(m2, e.userop)
                         ELSE IF e.token = "tINC" THEN Simple(m2, "inc_pri")
                         ELSE Simple(m2, "dec_pri")
               IN invoke_setter(m3, val.accessor, TRUE)
  IN {Rest(m1) : m1 \in Expr_Emit(e.expr, m)}

PreIncExpr_DoEmit(e, m) ==
  LET val == e.expr.val
      Rest(m1) ==
        IF val.ident # "ACCESSOR"
          THEN rvalue(IF e.userop # NoSym THEN emit_userop(m1, e.userop)
                      ELSE IncOrDec(e, m1, "inc", "dec"),
                      val)
          ELSE LET m2 == invoke_getter(pushreg(m1, "PRI"), val.accessor)
                   m3 == IF e.userop # NoSym THEN emit_userop(m2, e.userop)
                         ELSE IF e.token = "tINC" THEN Simple(m2, "inc_pri")
                         ELSE Simple(m2, "dec_pri")
               IN invoke_setter(popreg(m3, "ALT"), val.accessor, TRUE)
  IN {Rest(m1) : m1 \in Expr_Emit(e.expr, m)}

\* Mutant of PostIncExpr::DoEmit: the old value is not moved back to PRI
\* before the increment.
PostIncExpr_DoEmit_NoMoveto1(e, m) ==
  LET val == e.expr.val
      saveresult == val.ident \in {"ARRAYCELL", "ARRAYCHAR"}
      Rest(m1) ==
        IF val.ident # "ACCESSOR"
          THEN LET m2 == IF saveresult THEN pushreg(m1, "PRI") ELSE m1
                   m3 == rvalue(m2, val)
                   m4 == IF saveresult THEN Simple(m3, "swap1") ELSE m3
                   m5 == IF e.userop # NoSym THEN emit_userop(m4, e.userop)
                         ELSE IncOrDec(e, m4, "inc", "dec")
               IN IF saveresult THEN popreg(m5, "PRI") ELSE m5
          ELSE LET m2 == invoke_getter(pushreg(m1, "PRI"), val.accessor)
                   m3 == pushreg(Simple(Simple(m2, "move_alt"), "swap1"), "PRI")
                   m4 == IF e.userop # NoSym THEN emit_userop(m3, e.userop)
                         ELSE IF e.token = "tINC" THEN Simple(m3, "inc_pri")
                         ELSE Simple(m3, "dec_pri")
               IN popreg(invoke_setter(popreg(m4, "ALT"), val.accessor, FALSE), "PRI")
  IN {Rest(m1) : m1 \in Expr_Emit(e.expr, m)}

PostIncExpr_DoEmit(e, m) ==
  LET val == e.expr.val
      saveresult == val.ident \in {"ARRAYCELL", "ARRAYCHAR"}
      Rest(m1) ==
        IF val.ident # "ACCESSOR"
          THEN LET m2 == IF saveresult THEN pushreg(m1, "PRI") ELSE m1
                   m3 == rvalue(m2, val)
                   m4 == IF saveresult THEN Simple(m3, "swap1") ELSE m3
                   m5 == IF e.userop # NoSym THEN emit_userop(m4, e.userop)
                         ELSE IncOrDec(e, m4, "inc", "dec")
               IN IF saveresult THEN popreg(m5, "PRI") ELSE m5
          ELSE LET m2 == invoke_getter(pushreg(m1, "PRI"), val.accessor)
                   m3 == Simple(pushreg(Simple(Simple(m2, "move_alt"), "swap1"), "PRI"),
                                "moveto1")
                   m4 == IF e.userop # NoSym THEN emit_userop(m3, e.userop)
                         ELSE IF e.token = "tINC" THEN Simple(m3, "inc_pri")
                         ELSE Simple(m3, "dec_pri")
               IN popreg(invoke_setter(popreg(m4, "ALT"), val.accessor, FALSE), "PRI")
  IN {Rest(m1) : m1 \in Expr_Emit(e.expr, m)}

(***************************************************************************)
(* BinaryExpr.                                                             *)
(***************************************************************************)
\* Mutant of BinaryExpr::EmitInner: the left operand is saved only when an
\* operator is present, whether or not it can be rematerialized.
BinaryExpr_EmitInner_SaveOnlyForOper(root, left, right, m) ==
  LET left_val == left.val
      right_val == right.val
      oper == root.oper
      must_save_lhs == (oper # NoOper)
      Operator(m1) ==
        IF oper # NoOper
          THEN IF root.userop # NoSym THEN emit_userop(m1, root.userop)
               ELSE emit_oper(m1, oper)
          ELSE m1
  IN IF left_val.ident = "CONSTEXPR"
       THEN {Operator(ldconst(a, left_val.constval, "ALT"))
               : a \in IF right_val.ident = "CONSTEXPR"
                         THEN {ldconst(m, right_val.constval, "PRI")}
                         ELSE Expr_Emit(right, m)}
     ELSE IF right_val.ident = "CONSTEXPR"
       THEN IF commutative(oper)
              THEN {Operator(ldconst(m, right_val.constval, "ALT"))}
              ELSE LET a == IF must_save_lhs THEN pushreg(m, "PRI") ELSE m
                       b == ldconst(a, right_val.constval, "PRI")
                   IN {Operator(IF must_save_lhs THEN popreg(b, "ALT") ELSE b)}
     ELSE {Operator(IF must_save_lhs THEN popreg(b, "ALT") ELSE b)
             : b \in Expr_Emit(right, IF must_save_lhs THEN pushreg(m, "PRI") ELSE m)}

BinaryExpr_EmitInner(root, left, right, m) ==
  LET left_val == left.val
      right_val == right.val
      oper == root.oper
      must_save_lhs == (oper # NoOper) \/ ~left_val.remat
      Operator(m1) ==
        IF oper # NoOper
          THEN IF root.userop # NoSym THEN emit_userop(m1, root.userop)
               ELSE emit_oper(m1, oper)
          ELSE m1
  IN IF left_val.ident = "CONSTEXPR"
       THEN {Operator(ldconst(a, left_val.constval, "ALT"))
               : a \in IF right_val.ident = "CONSTEXPR"
                         THEN {ldconst(m, right_val.constval, "PRI")}
                         ELSE Expr_Emit(right, m)}
     ELSE IF right_val.ident = "CONSTEXPR"
       THEN IF commutative(oper)
              THEN {Operator(ldconst(m, right_val.constval, "ALT"))}
              ELSE LET a == IF must_save_lhs THEN pushreg(m, "PRI") ELSE m
                       b == ldconst(a, right_val.constval, "PRI")
                   IN {Operator(IF must_save_lhs THEN popreg(b, "ALT") ELSE b)}
     ELSE {Operator(IF must_save_lhs THEN popreg(b, "ALT") ELSE b)
             : b \in Expr_Emit(right, IF must_save_lhs THEN pushreg(m, "PRI") ELSE m)}

FlattenChainedCompares(e) ==
  IF e.kind = "BinaryExpr" /\ IsChainedOp(e.token)
    THEN <<e>> \o FlattenChainedCompares(e.left)
    ELSE <<>>

\* The while loop of EmitChainedCompare: exprs is popped from the back.
EmitChainLoop(exprs, left, count, m) ==
  IF Len(exprs) = 0 THEN {m}
  ELSE LET root == exprs[Len(exprs)]
           right == root.right
       IN UNION {EmitChainLoop(SubSeq(exprs, 1, Len(exprs) - 1), right, count + 1,
                               IF count # 0 THEN Simple(m2, "relop_suffix") ELSE m2)
                   : m2 \in BinaryExpr_EmitInner(root, left, right,
                              IF count # 0 THEN Simple(m, "relop_prefix") ELSE m)}

\* Mutant of BinaryExpr::EmitChainedCompare: the leftmost operand is emitted
\* even when it is a constant.
BinaryExpr_EmitChainedCompare_EmitsConstant(e, m) ==
  LET exprs == FlattenChainedCompares(e)
      left == exprs[Len(exprs)].left
  IN UNION {EmitChainLoop(exprs, left, 0, m1)
              : m1 \in Expr_Emit(left, m)}

BinaryExpr_EmitChainedCompare(e, m) ==
  LET exprs == FlattenChainedCompares(e)
      left == exprs[Len(exprs)].left
  IN UNION {EmitChainLoop(exprs, left, 0, m1)
              : m1 \in IF left.val.ident # "CONSTEXPR" THEN Expr_Emit(left, m) ELSE {m}}

\* Mutant of BinaryExpr::DoEmit: ALT is popped after every assignment.
BinaryExpr_DoEmit_AlwaysPops(e, m) ==
  IF IsChainedOp(e.token) THEN BinaryExpr_EmitChainedCompare(e, m)
  ELSE
    LET left_val == e.left.val
        assign == IsAssignOp(e.token)
        hasoper == e.oper # NoOper
        arrayish == left_val.ident \in {"ARRAYCELL", "ARRAYCHAR", "ARRAY", "REFARRAY"}
        saved_lhs == assign /\ ((arrayish /\ hasoper) \/ left_val.ident = "ACCESSOR")
        \* The assignment prologue, after the left-hand side was emitted.
        Prologue(m1) ==
          IF ~assign THEN m1
          ELSE IF arrayish
            THEN (IF hasoper THEN rvalue(pushreg(m1, "PRI"), left_val) ELSE m1)
          ELSE IF left_val.ident = "ACCESSOR"
            THEN (IF hasoper THEN rvalue(pushreg(m1, "PRI"), left_val)
                  ELSE pushreg(m1, "PRI"))
          ELSE (IF hasoper THEN rvalue(m1, left_val) ELSE m1)
        \* The assignment epilogue, after EmitInner.
        Epilogue(m3) ==
          IF assign
            THEN LET m4 == popreg(m3, "ALT")
                     m5 == IF e.assignop # NoSym THEN emit_userop(m4, e.assignop)
                           ELSE m4
                 IN store(m5, left_val)
            ELSE m3
        Body(m2) ==
          IF assign /\ e.array_copy_length # 0
            THEN {memcopy(popreg(m3, "ALT"), e.array_copy_length * CellSize)
                    : m3 \in Expr_Emit(e.right, pushreg(m2, "PRI"))}
            ELSE {Epilogue(m3) : m3 \in BinaryExpr_EmitInner(e, e.left, e.right, m2)}
    IN UNION {Body(m2)
                : m2 \in {Prologue(m1)
                            : m1 \in IF assign \/ left_val.ident # "CONSTEXPR"
                                       THEN Expr_Emit(e.left, m) ELSE {m}}}

BinaryExpr_DoEmit(e, m) ==
  IF IsChainedOp(e.token) THEN BinaryExpr_EmitChainedCompare(e, m)
  ELSE
    LET left_val == e.left.val
        assign == IsAssignOp(e.token)
        hasoper == e.oper # NoOper
        arrayish == left_val.ident \in {"ARRAYCELL", "ARRAYCHAR", "ARRAY", "REFARRAY"}
        saved_lhs == assign /\ ((arrayish /\ hasoper) \/ left_val.ident = "ACCESSOR")
        \* The assignment prologue, after the left-hand side was emitted.
        Prologue(m1) ==
          IF ~assign THEN m1
          ELSE IF arrayish
            THEN (IF hasoper THEN rvalue(pushreg(m1, "PRI"), left_val) ELSE m1)
          ELSE IF left_val.ident = "ACCESSOR"
            THEN (IF hasoper THEN rvalue(pushreg(m1, "PRI"), left_val)
                  ELSE pushreg(m1, "PRI"))
          ELSE (IF hasoper THEN rvalue(m1, left_val) ELSE m1)
        \* The assignment epilogue, after EmitInner.
        Epilogue(m3) ==
          IF assign
            THEN LET m4 == IF saved_lhs THEN popreg(m3, "ALT") ELSE m3
                     m5 == IF e.assignop # NoSym THEN emit_userop(m4, e.assignop)
                           ELSE m4
                 IN store(m5, left_val)
            ELSE m3
        Body(m2) ==
          IF assign /\ e.array_copy_length # 0
            THEN {memcopy(popreg(m3, "ALT"), e.array_copy_length * CellSize)
                    : m3 \in Expr_Emit(e.right, pushreg(m2, "PRI"))}
            ELSE {Epilogue(m3) : m3 \in BinaryExpr_EmitInner(e, e.left, e.right, m2)}
    IN UNION {Body(m2)
                : m2 \in {Prologue(m1)
                            : m1 \in IF assign \/ left_val.ident # "CONSTEXPR"
                                       THEN Expr_Emit(e.left, m) ELSE {m}}}

(***************************************************************************)
(* LogicalExpr.                                                            *)
(***************************************************************************)
\* LogicalExpr::FlattenLogical / Expr::FlattenLogical: the operands of the
\* maximal run of nested logical expressions with the same token.
FlattenLogical(e, token) ==
  IF e.kind = "LogicalExpr" /\ e.token = token
    THEN FlattenLogical(e.left, token) \o FlattenLogical(e.right, token)
    ELSE <<e>>

\* Mutant of EmitTestLoop: the || / jump-on-false case passes the labels
\* unswapped, so a non-last operand jumps to TAKEN.
EmitTestLoop_UnswappedLabels(sequence, i, token, jump_on_true, taken, fallthrough, m) ==
  IF i > Len(sequence) - 1 THEN {m}
  ELSE LET x == sequence[i]
       IN UNION {EmitTestLoop(sequence, i + 1, token, jump_on_true, taken, fallthrough, m1)
                   : m1 \in IF token = "tlOR"
                              THEN EmitTest(x, m, TRUE, taken, fallthrough)
                              ELSE IF jump_on_true
                                     THEN EmitTest(x, m, FALSE, fallthrough, taken)
                                     ELSE EmitTest(x, m, FALSE, taken, fallthrough)}

\* The for loop of LogicalExpr::EmitTest over sequence[0 .. length-2].
EmitTestLoop(sequence, i, token, jump_on_true, taken, fallthrough, m) ==
  IF i > Len(sequence) - 1 THEN {m}
  ELSE LET x == sequence[i]
       IN UNION {EmitTestLoop(sequence, i + 1, token, jump_on_true, taken, fallthrough, m1)
                   : m1 \in IF token = "tlOR"
                              THEN IF jump_on_true
                                     THEN EmitTest(x, m, TRUE, taken, fallthrough)
                                     ELSE EmitTest(x, m, TRUE, fallthrough, taken)
                              ELSE IF jump_on_true
                                     THEN EmitTest(x, m, FALSE, fallthrough, taken)
                                     ELSE EmitTest(x, m, FALSE, taken, fallthrough)}

LogicalExpr_EmitTest(e, m, jump_on_true, taken, fallthrough) ==
  LET sequence == FlattenLogical(e, e.token)
      last == sequence[Len(sequence)]
  IN UNION {EmitTest(last, m1, jump_on_true, taken, fallthrough)
              : m1 \in EmitTestLoop(sequence, 1, e.token, jump_on_true, taken,
                                    fallthrough, m)}

LogicalExpr_DoEmit(e, m) ==
  LET g1 == getlabel(m)
      done == lastlabel(g1)
      g2 == getlabel(g1)
      taken == lastlabel(g2)
      g3 == getlabel(g2)
      fallthrough == lastlabel(g3)
      Rest(m1) ==
        LET m2 == jumplabel(ldconst(setlabel(m1, fallthrough), 0, "PRI"), done)
        IN setlabel(ldconst(setlabel(m2, taken), 1, "PRI"), done)
  IN {Rest(m1) : m1 \in LogicalExpr_EmitTest(e, g3, TRUE, taken, fallthrough)}

\* Virtual dispatch of EmitTest.
EmitTest(e, m, jump_on_true, taken, fallthrough) ==
  IF e.kind = "LogicalExpr"
    THEN LogicalExpr_EmitTest(e, m, jump_on_true, taken, fallthrough)
    ELSE Expr_EmitTest(e, m, jump_on_true, taken, fallthrough)

(***************************************************************************)
(* TernaryExpr.                                                            *)
(***************************************************************************)
\* Closing a branch of a ternary: pop_static_heaplist, then setheap_save of
\* the static total when there is one.
CloseBranch(m) ==
  LET total == heaptotal(m)
      m1 == pop_static_heaplist(m)
  IN [em |-> IF total # 0 THEN setheap_save(m1, total * CellSize) ELSE m1,
      total |-> total]

\* Mutant of TernaryExpr::DoEmit: the heap scope of the else branch is not
\* opened.
TernaryExpr_DoEmit_NoSecondScope(e, m) ==
  LET Finish(b1, b2) ==
        LET m10 == setlabel(b2.em, b1.flab2)
        IN IF e.val.ident = "REFARRAY" /\ b1.total # 0 /\ b2.total # 0
             THEN markheap(m10, "MEMUSE_DYNAMIC", 0)
             ELSE m10
      Third(b1) ==
        {Finish(b1, b2)
           : b2 \in {CloseBranch(m7)
                       : m7 \in Expr_Emit(e.third,
                                  setlabel(jumplabel(b1.em, b1.flab2), b1.flab1))}}
      Second(m1) ==
        LET g1 == getlabel(m1)
            flab1 == lastlabel(g1)
            g2 == getlabel(g1)
            flab2 == lastlabel(g2)
        IN UNION {Third(b1)
                    : b1 \in {[em |-> CloseBranch(m3).em, total |-> CloseBranch(m3).total,
                               flab1 |-> flab1, flab2 |-> flab2]
                                : m3 \in Expr_Emit(e.second,
                                           jmp_eq0(pushheaplist(g2), flab1))}}
  IN UNION {Second(m1) : m1 \in Expr_Emit(e.first, m)}

\* Mutant of TernaryExpr::DoEmit: the final markheap when either branch
\* allocated.
TernaryExpr_DoEmit_MarkheapEither(e, m) ==
  LET Finish(b1, b2) ==
        LET m10 == setlabel(b2.em, b1.flab2)
        IN IF e.val.ident = "REFARRAY" /\ (b1.total # 0 \/ b2.total # 0)
             THEN markheap(m10, "MEMUSE_DYNAMIC", 0)
             ELSE m10
      Third(b1) ==
        {Finish(b1, b2)
           : b2 \in {CloseBranch(m7)
                       : m7 \in Expr_Emit(e.third,
                                  setlabel(jumplabel(pushheaplist(b1.em), b1.flab2),
                                           b1.flab1))}}
      Second(m1) ==
        LET g1 == getlabel(m1)
            flab1 == lastlabel(g1)
            g2 == getlabel(g1)
            flab2 == lastlabel(g2)
        IN UNION {Third(b1)
                    : b1 \in {[em |-> CloseBranch(m3).em, total |-> CloseBranch(m3).total,
                               flab1 |-> flab1, flab2 |-> flab2]
                                : m3 \in Expr_Emit(e.second,
                                           jmp_eq0(pushheaplist(g2), flab1))}}
  IN UNION {Second(m1) : m1 \in Expr_Emit(e.first, m)}

TernaryExpr_DoEmit(e, m) ==
  LET Finish(b1, b2) ==
        LET m10 == setlabel(b2.em, b1.flab2)
        IN IF e.val.ident = "REFARRAY" /\ b1.total # 0 /\ b2.total # 0
             THEN markheap(m10, "MEMUSE_DYNAMIC", 0)
             ELSE m10
      Third(b1) ==
        {Finish(b1, b2)
           : b2 \in {CloseBranch(m7)
                       : m7 \in Expr_Emit(e.third,
                                  setlabel(jumplabel(pushheaplist(b1.em), b1.flab2),
                                           b1.flab1))}}
      Second(m1) ==
        LET g1 == getlabel(m1)
            flab1 == lastlabel(g1)
            g2 == getlabel(g1)
            flab2 == lastlabel(g2)
        IN UNION {Third(b1)
                    : b1 \in {[em |-> CloseBranch(m3).em, total |-> CloseBranch(m3).total,
                               flab1 |-> flab1, flab2 |-> flab2]
                                : m3 \in Expr_Emit(e.second,
                                           jmp_eq0(pushheaplist(g2), flab1))}}
  IN UNION {Second(m1) : m1 \in Expr_Emit(e.first, m)}

(***************************************************************************)
(* The remaining node kinds.                                               *)
(***************************************************************************)
CastExpr_DoEmit(e, m) == Expr_Emit(e.expr, m)

SymbolExpr_DoEmit(e, m) ==
  CASE e.sym.ident = "CONSTEXPR" -> {ldconst(m, e.sym.addr, "PRI")}
    [] e.sym.ident \in {"ARRAY", "REFARRAY"} -> {address(m, e.sym.name, "PRI")}
    [] e.sym.ident = "FUNCTN" ->
         {markusage(load_glbfn(m, e.sym.name), e.sym.name, "uCALLBACK")}
    [] e.sym.ident \in {"VARIABLE", "REFERENCE"} -> {m}
    [] OTHER -> {assert_false(m)}

RvalueExpr_DoEmit(e, m) == {rvalue(m1, e.expr.val) : m1 \in Expr_Emit(e.expr, m)}

EmitAll(exprs, m) ==
  IF Len(exprs) = 0 THEN {m}
  ELSE UNION {EmitAll(Tail(exprs), m1) : m1 \in Expr_Emit(Head(exprs), m)}

CommaExpr_DoEmit(e, m) == EmitAll(e.exprs, m)

ArrayExpr_DoEmit(e, m) == {ldconst(m, e.addr, "PRI")}

ThisExpr_DoEmit(e, m) ==
  IF e.sym.ident = "REFARRAY" THEN {address(m, e.sym.name, "PRI")} ELSE {m}

StringExpr_DoEmit(e, m) == {ldconst(m, e.lit_addr, "PRI")}

\* Mutant of IndexExpr::DoEmit: a packed string is converted with cell2addr.
IndexExpr_DoEmit_AlwaysCell(e, m) ==
  LET sym == e.basesym
      magic_string == sym.string /\ sym.level = 0
      idxval == e.expr.val
      Deref(m2) ==
        IF sym.level > 0
          THEN Simple(popreg(rvalue(pushreg(m2, "PRI"), e.base.val), "ALT"), "ob_add")
          ELSE m2
      Bounds(a) ==
        IF ~magic_string
          THEN Simple(IF sym.length # 0 THEN ffbounds(a, sym.length - 1)
                      ELSE ffbounds_(a),
                      "cell2addr")
          ELSE Simple(IF sym.length # 0
                        THEN ffbounds(a, sym.length * (32 \div sCHARBITS) - 1)
                        ELSE ffbounds_(a),
                      "cell2addr")
      Subscript(m1) ==
        IF idxval.ident = "CONSTEXPR"
          THEN {IF ~magic_string
                  THEN IF idxval.constval # 0
                         THEN Simple(ldconst(m1, idxval.constval * 4, "ALT"), "ob_add")
                         ELSE m1
                  ELSE IF idxval.constval # 0
                         THEN Simple(ldconst(m1, idxval.constval, "ALT"), "ob_add")
                         ELSE m1}
          ELSE {Simple(popreg(Bounds(a), "ALT"), "ob_add")
                  : a \in Expr_Emit(e.expr, pushreg(m1, "PRI"))}
  IN UNION {{Deref(m2) : m2 \in Subscript(m1)} : m1 \in Expr_Emit(e.base, m)}

IndexExpr_DoEmit(e, m) ==
  LET sym == e.basesym
      magic_string == sym.string /\ sym.level = 0
      idxval == e.expr.val
      Deref(m2) ==
        IF sym.level > 0
          THEN Simple(popreg(rvalue(pushreg(m2, "PRI"), e.base.val), "ALT"), "ob_add")
          ELSE m2
      Bounds(a) ==
        IF ~magic_string
          THEN Simple(IF sym.length # 0 THEN ffbounds(a, sym.length - 1)
                      ELSE ffbounds_(a),
                      "cell2addr")
          ELSE Simple(IF sym.length # 0
                        THEN ffbounds(a, sym.length * (32 \div sCHARBITS) - 1)
                        ELSE ffbounds_(a),
                      "char2addr")
      Subscript(m1) ==
        IF idxval.ident = "CONSTEXPR"
          THEN {IF ~magic_string
                  THEN IF idxval.constval # 0
                         THEN Simple(ldconst(m1, idxval.constval * 4, "ALT"), "ob_add")
                         ELSE m1
                  ELSE IF idxval.constval # 0
                         THEN Simple(ldconst(m1, idxval.constval, "ALT"), "ob_add")
                         ELSE m1}
          ELSE {Simple(popreg(Bounds(a), "ALT"), "ob_add")
                  : a \in Expr_Emit(e.expr, pushreg(m1, "PRI"))}
  IN UNION {{Deref(m2) : m2 \in Subscript(m1)} : m1 \in Expr_Emit(e.base, m)}

FieldAccessExpr_DoEmit(e, m) ==
  {IF e.field_addr # 0
     THEN Simple(ldconst(m1, e.field_addr * 4, "ALT"), "ob_add")
     ELSE m1
     : m1 \in Expr_Emit(e.base, m)}

DefaultArgExpr_DoEmit(e, m) ==
  CASE e.arg.ident = "REFARRAY" -> {setdefarray(m, e.arg.name)}
    [] e.arg.ident = "REFERENCE" ->
         {markheap(setheap(m, e.arg.defval), "MEMUSE_STATIC", 1)}
    [] e.arg.ident = "VARIABLE" -> {ldconst(m, e.arg.defval, "PRI")}
    [] OTHER -> {assert_false(m)}

CallUserOpExpr_DoEmit(e, m) ==
  {emit_userop(m1, e.userop) : m1 \in Expr_Emit(e.expr, m)}

\* The body of the argument loop of CallExpr::DoEmit for one argument.
EmitArg(a, m) ==
  LET x == a.expr
      arg == a.arg
      val == x.val
      isvar == val.ident \in {"VARIABLE", "REFERENCE"}
      Written(a1) == IF val.sym # NoSym THEN markusage(a1, val.sym, "uWRITTEN") ELSE a1
      Pass(m1) ==
        CASE arg.ident = "VARARGS" ->
               Written(IF isvar
                         THEN IF val.symconst /\ ~arg.const
                                THEN setheap_pri(rvalue(m1, val))
                              ELSE IF x.lvalue
                                THEN address(m1, val.sym, "PRI")
                              ELSE setheap_pri(m1)
                       ELSE IF val.ident \in {"CONSTEXPR", "EXPRESSION"}
                         THEN setheap_pri(m1)
                       ELSE m1)
          [] arg.ident \in {"VARIABLE", "REFARRAY"} -> m1
          [] arg.ident = "REFERENCE" ->
               Written(IF isvar THEN address(m1, val.sym, "PRI") ELSE m1)
          [] OTHER -> assert_false(m1)
  IN {IF x.kind = "DefaultArgExpr" THEN pushreg(m1, "PRI")
      ELSE markexpr(pushreg(Pass(m1), "PRI"))
        : m1 \in Expr_Emit(x, m)}

\* for (size_t i = argv_.length() - 1; i < argv_.length(); i--)
EmitArgs(argv, i, m) ==
  IF i < 1 \/ i > Len(argv) THEN {m}
  ELSE UNION {EmitArgs(argv, i - 1, m1) : m1 \in EmitArg(argv[i], m)}

\* Mutant of CallExpr::DoEmit: the hidden parameter is popped after the heap
\* list.
CallExpr_DoEmit_PopsLate(e, m) ==
  LET m1 == IF e.val.sym # NoSym
              THEN markheap(pushreg(modheap(m, e.retsize * CellSize), "ALT"),
                            "MEMUSE_STATIC", e.retsize)
              ELSE m
      Rest(m3) ==
        LET m4 == ffcall(m3, e.sym, Len(e.argv))
            m5 == popheaplist(m4, TRUE)
        IN IF e.val.sym # NoSym THEN popreg(m5, "PRI") ELSE m5
  IN {Rest(m3) : m3 \in EmitArgs(e.argv, Len(e.argv), pushheaplist(m1))}

CallExpr_DoEmit(e, m) ==
  LET m1 == IF e.val.sym # NoSym
              THEN markheap(pushreg(modheap(m, e.retsize * CellSize), "ALT"),
                            "MEMUSE_STATIC", e.retsize)
              ELSE m
      Rest(m3) ==
        LET m4 == ffcall(m3, e.sym, Len(e.argv))
        IN popheaplist(IF e.val.sym # NoSym THEN popreg(m4, "PRI") ELSE m4, TRUE)
  IN {Rest(m3) : m3 \in EmitArgs(e.argv, Len(e.argv), pushheaplist(m1))}

\* Virtual dispatch of DoEmit.
DoEmit(e, m) ==
  CASE e.kind \in {"IsDefinedExpr", "NullExpr", "NumberExpr", "FloatExpr", "SizeofExpr"} ->
         ConstOnly_DoEmit(e, m)
    [] e.kind = "UnaryExpr" -> UnaryExpr_DoEmit(e, m)
    [] e.kind = "PreIncExpr" -> PreIncExpr_DoEmit(e, m)
    [] e.kind = "PostIncExpr" -> PostIncExpr_DoEmit(e, m)
    [] e.kind = "BinaryExpr" -> BinaryExpr_DoEmit(e, m)
    [] e.kind = "LogicalExpr" -> LogicalExpr_DoEmit(e, m)
    [] e.kind = "TernaryExpr" -> TernaryExpr_DoEmit(e, m)
    [] e.kind = "CastExpr" -> CastExpr_DoEmit(e, m)
    [] e.kind = "SymbolExpr" -> SymbolExpr_DoEmit(e, m)
    [] e.kind = "RvalueExpr" -> RvalueExpr_DoEmit(e, m)
    [] e.kind = "CommaExpr" -> CommaExpr_DoEmit(e, m)
    [] e.kind = "ArrayExpr" -> ArrayExpr_DoEmit(e, m)
    [] e.kind = "ThisExpr" -> ThisExpr_DoEmit(e, m)
    [] e.kind = "StringExpr" -> StringExpr_DoEmit(e, m)
    [] e.kind = "IndexExpr" -> IndexExpr_DoEmit(e, m)
    [] e.kind = "FieldAccessExpr" -> FieldAccessExpr_DoEmit(e, m)
    [] e.kind = "CallExpr" -> CallExpr_DoEmit(e, m)
    [] e.kind = "DefaultArgExpr" -> DefaultArgExpr_DoEmit(e, m)
    [] e.kind = "CallUserOpExpr" -> CallUserOpExpr_DoEmit(e, m)

(***************************************************************************)
(* Annotated expression trees handed to the generator.  The value          *)
(* descriptor of a node is the type checker's annotation.                  *)
(***************************************************************************)
MaxOperands == 3   \* leaf operands of a tree of logical expressions
MaxArgs == 2       \* arguments of a call

MkVal(ident, constval, sym, remat) ==
  [ident |-> ident, constval |-> constval, sym |-> sym, remat |-> remat,
   accessor |-> NoSym, symconst |-> FALSE]

Num(n) == [kind |-> "NumberExpr", val |-> MkVal("CONSTEXPR", n, NoSym, TRUE),
           lvalue |-> FALSE]

SymVar(x) ==
  [kind |-> "SymbolExpr", sym |-> [name |-> x, ident |-> "VARIABLE", addr |-> 0],
   val |-> MkVal("VARIABLE", 0, x, TRUE), lvalue |-> TRUE]

Var(x) == [kind |-> "RvalueExpr", expr |-> SymVar(x),
           val |-> MkVal("VARIABLE", 0, x, TRUE), lvalue |-> FALSE]

Logical(token, l, r) ==
  [kind |-> "LogicalExpr", token |-> token, left |-> l, right |-> r,
   val |-> MkVal("EXPRESSION", 0, NoSym, FALSE), lvalue |-> FALSE]

Binary(token, oper, userop, l, r) ==
  [kind |-> "BinaryExpr", token |-> token, oper |-> oper, userop |-> userop,
   assignop |-> NoSym, left |-> l, right |-> r, array_copy_length |-> 0,
   val |-> MkVal("EXPRESSION", 0, NoSym, FALSE), lvalue |-> FALSE]

Ternary(c, t, f, ident) ==
  [kind |-> "TernaryExpr", first |-> c, second |-> t, third |-> f,
   val |-> MkVal(ident, 0, NoSym, FALSE), lvalue |-> FALSE]

\* A call; retsize > 0 means the callee returns an array (val_.sym is set).
Call(sym, argv, retsize) ==
  [kind |-> "CallExpr", sym |-> sym, argv |-> argv, retsize |-> retsize,
   val |-> MkVal(IF retsize > 0 THEN "REFARRAY" ELSE "EXPRESSION", 0,
                 IF retsize > 0 THEN sym ELSE NoSym, FALSE),
   lvalue |-> FALSE]

ArgDesc(ident) == [ident |-> ident, const |-> FALSE, name |-> "p", defval |-> 7]

DefaultArg(ident) ==
  [kind |-> "DefaultArgExpr", arg |-> ArgDesc(ident),
   val |-> MkVal("EXPRESSION", 0, NoSym, FALSE), lvalue |-> FALSE]

RECURSIVE LogicalTrees(_, _)
\* Every tree of && and || with exactly n leaf operands drawn from leaves.
LogicalTrees(n, leaves) ==
  IF n = 1 THEN leaves
  ELSE UNION {{Logical(tok, l, r) : tok \in {"tlOR", "tlAND"},
                                    l \in LogicalTrees(k, leaves),
                                    r \in LogicalTrees(n - k, leaves)}
              : k \in 1 .. (n - 1)}

LogicLeaves == {Var("a"), Var("b"), Var("c")}

LogicInputs == UNION {LogicalTrees(n, LogicLeaves) : n \in 2 .. MaxOperands}

HeapCall == Call("f", <<>>, 2)
Atoms == {Var("a"), Num(1)}
T0 == Atoms \cup {HeapCall}

ArgChoices(S) ==
  {[expr |-> x, arg |-> ArgDesc(d)] : x \in S, d \in {"VARIABLE", "VARARGS", "REFERENCE"}}
  \cup {[expr |-> DefaultArg(d), arg |-> ArgDesc(d)] : d \in {"VARIABLE", "REFARRAY", "REFERENCE"}}

ArgSeqs(S) == UNION {[1 .. n -> ArgChoices(S)] : n \in 0 .. MaxArgs}

Calls1 == {Call("g", argv, rs) : argv \in ArgSeqs(T0), rs \in {0, 2}}

Tern1 == {Ternary(Var("a"), t, f, id) : t \in T0, f \in T0, id \in {"EXPRESSION", "REFARRAY"}}

Calls2 == {Call("g", <<[expr |-> t, arg |-> ArgDesc("VARIABLE")]>>, rs) : t \in Tern1, rs \in {0, 2}}

Tern2 ==
  LET S == T0 \cup Tern1 \cup {Call("g", <<[expr |-> HeapCall, arg |-> ArgDesc("VARIABLE")]>>, 0)}
  IN {Ternary(Var("a"), t, f, id) : t \in S, f \in S, id \in {"EXPRESSION", "REFARRAY"}}

HeapInputs == Calls1 \cup Tern1 \cup Calls2 \cup Tern2

SymRef(x) ==
  [kind |-> "SymbolExpr", sym |-> [name |-> x, ident |-> "REFERENCE", addr |-> 0],
   val |-> MkVal("REFERENCE", 0, x, FALSE), lvalue |-> TRUE]

SymArr(x) ==
  [kind |-> "SymbolExpr", sym |-> [name |-> x, ident |-> "ARRAY", addr |-> 0],
   val |-> MkVal("ARRAY", 0, x, FALSE), lvalue |-> FALSE]

Index(base, idx, string, level, length) ==
  [kind |-> "IndexExpr", base |-> base, expr |-> idx,
   basesym |-> [name |-> base.val.sym, string |-> string, level |-> level, length |-> length],
   val |-> MkVal(IF string /\ level = 0 THEN "ARRAYCHAR" ELSE "ARRAYCELL", 0, base.val.sym, FALSE),
   lvalue |-> TRUE]

FieldAcc(base, acc) ==
  [kind |-> "FieldAccessExpr", base |-> base, field_addr |-> 0,
   val |-> [MkVal("ACCESSOR", 0, NoSym, FALSE) EXCEPT !.accessor = acc],
   lvalue |-> TRUE]

Assign(token, oper, assignop, l, r) ==
  [Binary(token, oper, NoSym, l, r) EXCEPT !.assignop = assignop]

BinOps == {<<"+", "ob_add">>, <<"-", "ob_sub">>, <<"*", "os_mult">>}
BConst == {Num(1), Num(2), Num(3)}
BExpr == {Var("a"), Call("h", <<>>, 0)}

Bin1 == {Binary(op[1], op[2], uo, l, r) :
           op \in BinOps, uo \in {NoSym, "user_op"},
           l \in BConst \cup BExpr, r \in BConst \cup BExpr}

Bin2 ==
  LET S == BConst \cup {Var("a")}
  IN UNION {{Binary(o1[1], o1[2], NoSym, l, Binary(o2[1], o2[2], NoSym, x, y)),
             Binary(o1[1], o1[2], NoSym, Binary(o2[1], o2[2], NoSym, x, y), l)}
            : o1 \in BinOps, o2 \in BinOps, l \in S, x \in S, y \in S}

Lvalues ==
  {SymVar("x"), SymRef("r"), FieldAcc(Var("obj"), "prop"),
   Index(SymArr("arr"), Var("i"), FALSE, 0, 8), Index(SymArr("str"), Var("i"), TRUE, 0, 8)}

AssignInputs ==
  {Assign(op[1], op[2], ao, l, r) :
     op \in {<<"=", NoOper>>, <<"taADD", "ob_add">>, <<"taSUB", "ob_sub">>},
     ao \in {NoSym, "user_assign"}, l \in Lvalues, r \in BConst \cup BExpr}

\* arr = src, a copy of a whole array of 4 cells.
ArrayCopyInputs ==
  {[Assign("=", NoOper, NoSym, SymArr("arr"), SymArr("src")) EXCEPT !.array_copy_length = 4]}

BinInputs == Bin1 \cup Bin2 \cup AssignInputs \cup ArrayCopyInputs

\* arr[idx]: the base a plain or a string array, of the last or of an outer
\* dimension, of known length or not; the index a variable, a call or a
\* constant.
IndexInputs ==
  {Index(SymArr("arr"), idx, string, level, length)
     : idx \in {Var("i"), Call("h", <<>>, 0), Num(0), Num(2)},
       string \in BOOLEAN, level \in {0, 1}, length \in {0, 8}}

\* The nodes that are always constant, and nodes of other kinds whose value
\* was folded to a constant.
ConstInputs ==
  {[Num(n) EXCEPT !.kind = k]
     : k \in {"IsDefinedExpr", "NullExpr", "NumberExpr", "FloatExpr", "SizeofExpr"},
       n \in {0, 5}}
    \cup {[x EXCEPT !.val = MkVal("CONSTEXPR", 5, NoSym, TRUE)]
            : x \in {Binary("+", "ob_add", NoSym, Num(2), Num(3)),
                     Logical("tlAND", Num(1), Num(5)),
                     Ternary(Num(1), Num(5), Num(2), "EXPRESSION"),
                     Call("h", <<>>, 0), Var("a")}}

\* ++x, --x, x++ and x-- on the l-values, with and without a user-defined
\* operator.
IncDec(kind, token, userop, x) ==
  [kind |-> kind, token |-> token, userop |-> userop, expr |-> x,
   val |-> MkVal("EXPRESSION", 0, NoSym, FALSE), lvalue |-> FALSE]

IncDecInputs ==
  {IncDec(k, t, uo, x) : k \in {"PreIncExpr", "PostIncExpr"}, t \in {"tINC", "tDEC"},
                         uo \in {NoSym, "user_op"}, x \in Lvalues}

\* The largest number of relational operators of a chained comparison.
MaxLinks == 3

RelOps == {<<"<", "os_less", NoSym>>, <<"tlLE", "os_le", NoSym>>, <<">", "os_gt", "user_op">>}

ChainNames == <<"a", "b", "c", "d", "e", "f">>

\* The i-th operand of a chain: a variable or a constant.
ChainOperand(i) == {Var(ChainNames[i]), Num(i)}

RECURSIVE Chains(_)
\* The left-leaning chains e0 op1 e1 ... opn en.
Chains(n) ==
  IF n = 0 THEN ChainOperand(1)
  ELSE {Binary(op[1], op[2], op[3], l, r)
          : op \in RelOps, l \in Chains(n - 1), r \in ChainOperand(n + 1)}

ChainInputs == UNION {Chains(n) : n \in 1..MaxLinks}

GenInputs ==
  LogicInputs \cup HeapInputs \cup BinInputs \cup IndexInputs \cup ConstInputs
    \cup IncDecInputs \cup ChainInputs

GenModes ==
  {[fn |-> "Emit", jump_on_true |-> FALSE, taken |-> 0, fallthrough |-> 0]}
  \cup {[fn |-> "EmitTest", jump_on_true |-> j, taken |-> 1, fallthrough |-> 2]
        : j \in BOOLEAN}
  \cup {[fn |-> "EmitInner", jump_on_true |-> FALSE, taken |-> 0, fallthrough |-> 0]}

ParserIdle == [pos |-> 0]
NoEntry == [fn |-> "none"]

InitGen ==
  /\ expr \in GenInputs
  /\ mode \in GenModes
  /\ mode.fn = "EmitInner" => expr \in BinInputs
  /\ em = [EmitterInit EXCEPT !.nlabel = IF mode.fn = "EmitTest" THEN 2 ELSE 0]
  /\ toks = <<>>
  /\ entry = NoEntry
  /\ ps = ParserIdle
  /\ pc = "start"

\* expr->Emit()
GenEmit ==
  /\ pc = "start"
  /\ mode.fn = "Emit"
  /\ em' \in Expr_Emit(expr, em)
  /\ pc' = "done"
  /\ UNCHANGED <<expr, mode, toks, entry, ps>>

\* expr->EmitTest(jump_on_true, taken, fallthrough)
GenEmitTest ==
  /\ pc = "start"
  /\ mode.fn = "EmitTest"
  /\ em' \in EmitTest(expr, em, mode.jump_on_true, mode.taken, mode.fallthrough)
  /\ pc' = "done"
  /\ UNCHANGED <<expr, mode, toks, entry, ps>>

\* BinaryExpr::EmitInner(expr, expr->left(), expr->right())
GenEmitInner ==
  /\ pc = "start"
  /\ mode.fn = "EmitInner"
  /\ em' \in BinaryExpr_EmitInner(expr, expr.left, expr.right, em)
  /\ pc' = "done"
  /\ UNCHANGED <<expr, mode, toks, entry, ps>>

NextGen == GenEmit \/ GenEmitTest \/ GenEmitInner

SpecGen == InitGen /\ [][NextGen]_vars

(***************************************************************************)
(* THE PARSER (src/v2/parser.cpp).                                         *)
(*                                                                         *)
(* The scanner.  toks is the raw token stream: records with a kind, a      *)
(* name and the physical line.  The parser state p holds the scanner       *)
(* position (pos raw tokens consumed), the current token, the pushed-back  *)
(* tokens, the label-recognition flag, the one-token undo snapshot, the    *)
(* diagnostics reported so far and the production's return value (node).   *)
(* A location is the index of a token in the raw stream.                   *)
(***************************************************************************)
Null == [kind |-> "null"]

RECURSIVE matchAny(_, _)

\* The argument list of a production that takes none.
NoArgs == <<>>



\* The raw token at index i; past the end the scanner returns EOF forever.
RawAt(i) ==
  IF i >= 1 /\ i <= Len(toks) THEN toks[i]
  ELSE [kind |-> "EOF", name |-> "", line |-> 0]

\* The token the scanner produces next, and the scanner position after it.
\* With label recognition on, a NAME directly followed by ':' is one LABEL.
Lex(p) ==
  IF Len(p.pushed) > 0
    THEN [tok |-> p.pushed[1], pos |-> p.pos, pushed |-> Tail(p.pushed)]
  ELSE LET r == RawAt(p.pos + 1)
           at == IF p.pos < Len(toks) THEN p.pos + 1 ELSE Len(toks) + 1
       IN IF r.kind = "NAME" /\ p.tags /\ RawAt(p.pos + 2).kind = "COLON"
            THEN [tok |-> [kind |-> "LABEL", name |-> r.name, loc |-> at, line |-> r.line],
                  pos |-> p.pos + 2, pushed |-> <<>>]
            ELSE [tok |-> [kind |-> r.kind, name |-> r.name, loc |-> at, line |-> r.line],
                  pos |-> IF p.pos < Len(toks) THEN p.pos + 1 ELSE p.pos,
                  pushed |-> <<>>]

\* scanner_.peek()
peek(p) == Lex(p).tok.kind

\* The scanner position, current token and pushed-back tokens of p.
Snapshot(p) == [pos |-> p.pos, cur |-> p.cur, pushed |-> p.pushed]

\* scanner_.next(): the token becomes current; the state before it is kept
\* for undo().
next(p) ==
  LET Take(lx) ==
        [p EXCEPT !.cur = lx.tok, !.pos = lx.pos, !.pushed = lx.pushed,
                  !.history = Append(@, Snapshot(p)), !.canUndo = TRUE]
  IN Take(Lex(p))

\* scanner_.undo(): rewinds exactly one token.  The parser calls it up to
\* three times in a row (matchMethodBind), so every call rewinds one token;
\* a call that does not directly follow a next() is outside the one-token
\* contract and is recorded in undoTwice.
undo(p) ==
  IF p.history = <<>> THEN {[p EXCEPT !.undoTwice = TRUE, !.canUndo = FALSE]}
  ELSE {[p EXCEPT !.cur = p.history[Len(p.history)].cur,
                  !.pos = p.history[Len(p.history)].pos,
                  !.pushed = p.history[Len(p.history)].pushed,
                  !.history = SubSeq(@, 1, Len(@) - 1),
                  !.undoTwice = @ \/ ~p.canUndo,
                  !.canUndo = FALSE]}

\* scanner_.pushBack(tok)
pushBack(p, tok) == [p EXCEPT !.pushed = <<tok>> \o @]

\* scanner_.peekTokenSameLine()
peekTokenSameLine(p) ==
  LET SameLine(tok) ==
        IF tok.kind # "EOF" /\ tok.line = p.cur.line THEN tok.kind ELSE "EOL"
  IN SameLine(Lex(p).tok)

\* scanner_.begin(): the location of the current token.
begin(p) == p.cur.loc

\* cc_.reportError(loc, message)
reportError(p, loc, message) ==
  [p EXCEPT !.diags = Append(@, [code |-> message, loc |-> loc])]

\* return <node>
Ret(p, n) == [p EXCEPT !.node = n]

\* AutoAllowTags<v>: the constructor sets the flag, the destructor restores
\* the value found on entry.
SetTags(p, v) == [p EXCEPT !.tags = v]

\* Parser::peek(kind)
peekIs(p, kind) == peek(p) = kind

\* Parser::match(kind): next(), and undo() when the kind is another one.
\* The result is in hit.
match(p, kind) ==
  LET Matched(q) ==
        IF q.cur.kind = kind THEN {[q EXCEPT !.hit = TRUE]}
        ELSE {[u EXCEPT !.hit = FALSE] : u \in undo(q)}
  IN Matched(next(p))

\* !match(k1) && !match(k2) && ...: the kinds are tried in order, each failed
\* try being a next() and an undo().
matchAny(p, kinds) ==
  IF kinds = <<>> THEN {[p EXCEPT !.hit = FALSE]}
  ELSE UNION {IF m.hit THEN {m} ELSE matchAny(m, Tail(kinds))
                : m \in match(p, Head(kinds))}

\* Parser::expect(kind)
expect(p, kind) ==
  LET Expected(q) ==
        IF q.cur.kind = kind THEN [q EXCEPT !.hit = TRUE]
        ELSE [reportError(q, begin(q), "WrongToken") EXCEPT !.hit = FALSE]
  IN Expected(next(p))

\* Parser::requireTerminator, were the end of the line no terminator.
requireTerminator_SemicolonOnly(p) ==
  LET Newline(m) ==
        IF m.hit THEN m
        ELSE [reportError(m, begin(m), "ExpectedNewlineOrSemi") EXCEPT !.hit = FALSE]
  IN IF p.requireSemicolons THEN {expect(p, "SEMICOLON")}
     ELSE {Newline(m) : m \in match(p, "SEMICOLON")}

\* Parser::requireTerminator
requireTerminator(p) ==
  LET Newline(m) ==
        IF m.hit THEN m
        ELSE IF peekTokenSameLine(m) = "EOL" THEN [m EXCEPT !.hit = TRUE]
        ELSE [reportError(m, begin(m), "ExpectedNewlineOrSemi") EXCEPT !.hit = FALSE]
  IN IF p.requireSemicolons THEN {expect(p, "SEMICOLON")}
     ELSE {Newline(m) : m \in match(p, "SEMICOLON")}

\* Parser::requireNewline
requireNewline(p) ==
  IF peekTokenSameLine(p) = "EOL" THEN [p EXCEPT !.hit = TRUE]
  ELSE [reportError(p, begin(p), "ExpectedNewline") EXCEPT !.hit = FALSE]

\* Parser::requireNewlineOrSemi
requireNewlineOrSemi(p) ==
  LET Newline(q) ==
        IF peekTokenSameLine(q) = "EOL" THEN [q EXCEPT !.hit = TRUE]
        ELSE [reportError(q, begin(q), "ExpectedNewline") EXCEPT !.hit = FALSE]
  IN Newline(IF peekTokenSameLine(p) = "SEMICOLON" THEN next(p) ELSE p)

\* IsNewTypeToken(kind)
IsNewTypeToken(kind) == kind \in {"INT", "VOID", "FLOAT", "CHAR", "BOOL", "OBJECT"}

\* The parser state on construction of the Parser.
ParserInit(tags, semis) ==
  [pos |-> 0, cur |-> [kind |-> "NONE", name |-> "", loc |-> 0, line |-> 0],
   pushed |-> <<>>, tags |-> tags, requireSemicolons |-> semis,
   history |-> <<>>, canUndo |-> FALSE, undoTwice |-> FALSE,
   diags |-> <<>>, node |-> Null, hit |-> FALSE,
   allowDeclarations |-> TRUE, allowSingleLineFunctions |-> TRUE,
   calls |-> <<>>, spec |-> Null, decl |-> Null, assertFailed |-> FALSE,
   encounteredReturn |-> FALSE, list |-> <<>>, tree |-> [kind |-> "running"]]
RECURSIVE primitive(_), parseStructInitializer_loop(_, _, _), parseCompoundLiteral_loop(_, _, _)
RECURSIVE parseCompoundLiteral(_), prefix(_), call_loop(_, _, _, _), call(_, _), index(_, _)
RECURSIVE primary_loop(_), primary(_), unary(_), multiplication_loop(_), multiplication(_)
RECURSIVE addition_loop(_), addition(_), shift_loop(_), shift(_), bitand__loop(_), bitand_(_)
RECURSIVE bitxor_loop(_), bitxor(_), bitor__loop(_), bitor_(_), relational_loop(_, _)
RECURSIVE relational(_), equals_loop(_), equals(_), and__loop(_), and_(_), or__loop(_), or_(_)
RECURSIVE ternary(_), assignment_loop(_), assignment(_), expression(_)
RECURSIVE Invoke(_, _, _)

RECURSIVE parse_function_type(_, _, _), parse_new_type_expr_loop(_, _, _)
RECURSIVE parse_new_type_expr(_, _, _), parse_old_array_dims_loop(_, _, _, _, _)
RECURSIVE parse_old_array_dims(_, _, _), parse_new_decl(_, _, _), parse_old_decl(_, _, _)
RECURSIVE reparse_decl(_, _, _), parse_decl(_, _, _), arguments_loop(_, _, _), arguments(_)
RECURSIVE while_(_), do_(_), IfChain(_, _, _), if__loop(_, _), if_(_), switch__others(_, _)
RECURSIVE switch__loop(_, _), switch_(_), for_(_), variable_loop(_, _, _, _)
RECURSIVE variable(_, _, _, _), localVariableDeclaration(_, _, _), return_(_)
RECURSIVE expressionStatement(_), statements_loop(_, _), statements(_), block(_)
RECURSIVE statement(_), statementOrBlock(_), enum__loop(_, _, _, _), enum_(_)
RECURSIVE parseAccessor_loop(_, _), parseAccessor(_), parseMethod(_), methodmap_loop(_, _)
RECURSIVE methodmap(_), methodBody(_), function(_, _, _, _), global(_, _)
RECURSIVE struct__loop(_, _), struct_(_, _), typedef_(_)
RECURSIVE struct__iteration(_, _)

(***************************************************************************)
(* Expressions.  A production maps the parser state on entry to the set of *)
(* states it can return in (one, the parser being deterministic); the      *)
(* returned node is in the node field, Null for nullptr.                   *)
(* {F(q) : q \in G(p)} is "call G, then do F in the state it left".        *)
(***************************************************************************)
Literal(kind, tok) == [kind |-> kind, pos |-> tok.loc, name |-> tok.name]

NameProxy(tok) == [kind |-> "NameProxy", pos |-> tok.loc, name |-> tok.name]

BinaryExpression(pos, token, left, right) ==
  [kind |-> "BinaryExpression", pos |-> pos, token |-> token,
   left |-> left, right |-> right]

\* Parser::primitive
primitive(p) ==
  LET Case(q) ==
        CASE q.cur.kind = "FLOAT_LITERAL" -> {Ret(q, Literal("FloatLiteral", q.cur))}
          [] q.cur.kind \in {"HEX_LITERAL", "INTEGER_LITERAL"} ->
               {Ret(q, Literal("IntegerLiteral", q.cur))}
          [] q.cur.kind \in {"TRUE", "FALSE"} -> {Ret(q, Literal("BooleanLiteral", q.cur))}
          [] q.cur.kind = "STRING_LITERAL" -> {Ret(q, Literal("StringLiteral", q.cur))}
          [] q.cur.kind = "CHAR_LITERAL" -> {Ret(q, Literal("CharLiteral", q.cur))}
          [] q.cur.kind = "THIS" -> {Ret(q, Literal("ThisExpression", q.cur))}
          [] q.cur.kind = "LBRACE" -> Invoke("parseCompoundLiteral", q, NoArgs)
          [] OTHER ->
               {Ret(IF q.cur.kind # "ERROR"
                      THEN reportError(q, begin(q), "ExpectedExpression")
                      ELSE q,
                    Null)}
  IN UNION {Case(q) : q \in {next(p)}}

\* The while loop of Parser::parseStructInitializer.
parseStructInitializer_loop(p, pos, pairs) ==
  LET Value(a, name) ==
        UNION {IF x.node = Null THEN {x}
               ELSE UNION {parseStructInitializer_loop(
                             c, pos, Append(pairs, [name |-> name, expr |-> x.node]))
                             : c \in match(x, "COMMA")}
                 : x \in Invoke("expression", a, NoArgs)}
      Pair(e) ==
        IF ~e.hit THEN {Ret(e, Null)}
        ELSE UNION {IF ~a.hit THEN {Ret(a, Null)} ELSE Value(a, e.cur)
                      : a \in match(e, "ASSIGN")}
      Body(m) ==
        IF m.hit
          THEN {Ret(m, [kind |-> "StructInitializer", pos |-> pos, pairs |-> pairs])}
          ELSE UNION {Pair(e) : e \in {expect(m, "NAME")}}
  IN UNION {Body(m) : m \in match(p, "RBRACE")}

\* Parser::parseStructInitializer
parseStructInitializer(p, pos) == parseStructInitializer_loop(p, pos, <<>>)

\* The while loop of Parser::parseCompoundLiteral; the items are parsed but
\* the list handed to the ArrayLiteral is the one allocated before the loop.
parseCompoundLiteral_loop(p, pos, list) ==
  LET Finish(q) ==
        {Ret(e, [kind |-> "ArrayLiteral", pos |-> pos, token |-> "LBRACE",
                 expressions |-> list])
           : e \in {expect(q, "RBRACE")}}
      Item(x) ==
        IF x.node = Null THEN {x}
        ELSE UNION {IF c.hit THEN parseCompoundLiteral_loop(c, pos, list) ELSE Finish(c)
                      : c \in match(x, "COMMA")}
  IN IF peekIs(p, "RBRACE") THEN Finish(p)
     ELSE UNION {Item(x) : x \in Invoke("expression", p, NoArgs)}

\* Parser::parseCompoundLiteral
parseCompoundLiteral(p) ==
  UNION {IF m.hit /\ peekIs(m, "ASSIGN")
           THEN UNION {parseStructInitializer(u, begin(p)) : u \in undo(m)}
           ELSE UNION {parseCompoundLiteral_loop(u, begin(p), <<>>)
                         : u \in IF m.hit THEN undo(m) ELSE {m}}
           : m \in match(p, "NAME")}

\* Parser::prefix
prefix(p) ==
  LET Paren(x) ==
        IF x.node = Null THEN {x}
        ELSE {IF e.hit THEN Ret(e, x.node) ELSE Ret(e, Null) : e \in {expect(x, "RPAREN")}}
      Case(q) ==
        CASE q.cur.kind = "LPAREN" -> UNION {Paren(x) : x \in Invoke("expression", q, NoArgs)}
          [] q.cur.kind = "NAME" -> {Ret(q, NameProxy(q.cur))}
          [] OTHER ->
               IF IsNewTypeToken(q.cur.kind) THEN {Ret(q, NameProxy(q.cur))}
               ELSE UNION {Invoke("primitive", u, NoArgs) : u \in undo(q)}
  IN UNION {Case(q) : q \in {next(p)}}

\* The while (true) loop of Parser::call and the closing parenthesis.
call_loop(p, pos, callee, args) ==
  LET Close(c, list) ==
        {IF e.hit
           THEN Ret(e, [kind |-> "CallExpression", pos |-> pos, callee |-> callee,
                        arguments |-> list])
           ELSE Ret(e, Null)
           : e \in {expect(c, "RPAREN")}}
      Arg(x) ==
        IF x.node = Null THEN {x}
        ELSE UNION {IF c.hit THEN call_loop(c, pos, callee, Append(args, x.node))
                    ELSE Close(c, Append(args, x.node))
                      : c \in match(x, "COMMA")}
  IN UNION {Arg(x) : x \in Invoke("expression", p, NoArgs)}

\* Parser::call
call(p, callee) ==
  UNION {IF m.hit
           THEN {Ret(m, [kind |-> "CallExpression", pos |-> begin(p), callee |-> callee,
                         arguments |-> <<>>])}
           ELSE call_loop(m, begin(p), callee, <<>>)
           : m \in match(expect(p, "LPAREN"), "RPAREN")}

\* Parser::index
index(p, left) ==
  LET Close(x, pos) ==
        IF x.node = Null THEN {x}
        ELSE {IF c.hit
                THEN Ret(c, [kind |-> "IndexExpression", pos |-> pos, left |-> left,
                             right |-> x.node])
                ELSE Ret(c, Null)
                : c \in {expect(x, "RBRACKET")}}
  IN UNION {UNION {Close(x, begin(e)) : x \in Invoke("expression", e, NoArgs)}
              : e \in {expect(p, "LBRACKET")}}

\* The for (;;) loop of Parser::primary; p.node is expr.
primary_loop(p) ==
  CASE peekIs(p, "LPAREN") ->
         UNION {IF x.node = Null THEN {x} ELSE primary_loop(x) : x \in call(p, p.node)}
    [] peekIs(p, "LBRACKET") ->
         UNION {IF x.node = Null THEN {x} ELSE primary_loop(x) : x \in index(p, p.node)}
    [] OTHER -> {p}

\* Parser::primary
primary(p) ==
  UNION {IF x.node = Null THEN {x} ELSE primary_loop(x) : x \in prefix(p)}

\* Parser::unary
unary(p) ==
  LET token == peek(p)
      pos == begin(p)
      Operand(x, node) == IF x.node = Null THEN x ELSE Ret(x, node)
      Sizeof(x) ==
        IF x.node = Null THEN {x}
        ELSE {IF c.hit
                THEN Ret(c, [kind |-> "UnaryExpression", pos |-> pos, token |-> token,
                             expr |-> x.node])
                ELSE Ret(c, Null)
                : c \in {expect(x, "RPAREN")}}
      Postfix(x) ==
        IF peek(x) \in {"INCREMENT", "DECREMENT"}
          THEN Ret(next(x), [kind |-> "IncDecExpression", pos |-> pos, token |-> peek(x),
                             expr |-> x.node, postfix |-> TRUE])
          ELSE x
  IN CASE token \in {"INCREMENT", "DECREMENT"} ->
            UNION {{Operand(x, [kind |-> "IncDecExpression", pos |-> pos,
                                token |-> token, expr |-> x.node, postfix |-> FALSE])
                      : x \in unary(q)}
                     : q \in {next(p)}}
       [] token \in {"MINUS", "NOT", "TILDE"} ->
            UNION {{Operand(x, [kind |-> "UnaryExpression", pos |-> pos,
                                token |-> IF token = "MINUS" THEN "NEGATE" ELSE token,
                                expr |-> x.node])
                      : x \in unary(q)}
                     : q \in {next(p)}}
       [] token = "SIZEOF" ->
            UNION {IF ~e.hit THEN {Ret(e, Null)}
                   ELSE UNION {Sizeof(x) : x \in unary(e)}
                     : e \in {expect(next(p), "LPAREN")}}
       [] token = "LABEL" ->
            UNION {{Operand(x, [kind |-> "UnaryExpression", pos |-> pos,
                                token |-> "LABEL", expr |-> x.node,
                                tag |-> NameProxy(q.cur)])
                      : x \in unary(q)}
                     : q \in {next(p)}}
       [] OTHER -> {Postfix(x) : x \in primary(p)}

(***************************************************************************)
(* The binary operator ladder.                                             *)
(***************************************************************************)
\* The do ... while (left) loop of Parser::multiplication; l.node is left.
\* The body runs before left is tested, and a new node is never null.
multiplication_loop(l) ==
  LET Right(m) ==
        UNION {IF r.node = Null THEN {r}
               ELSE multiplication_loop(Ret(r, BinaryExpression(m.cur.loc, m.cur.kind,
                                                                l.node, r.node)))
                 : r \in Invoke("unary", m, NoArgs)}
  IN UNION {IF m.hit THEN Right(m) ELSE {m}
              : m \in matchAny(l, <<"SLASH", "STAR", "PERCENT">>)}

\* Parser::multiplication
multiplication(p) == UNION {multiplication_loop(l) : l \in unary(p)}

\* The while (left) loop of Parser::addition; l.node is left.
addition_loop(l) ==
  LET Right(m) ==
        UNION {IF r.node = Null THEN {r}
               ELSE addition_loop(Ret(r, BinaryExpression(m.cur.loc, m.cur.kind,
                                                       l.node, r.node)))
                 : r \in Invoke("multiplication", m, NoArgs)}
  IN IF l.node = Null THEN {l}
     ELSE UNION {IF m.hit THEN Right(m) ELSE {m} : m \in matchAny(l, <<"PLUS", "MINUS">>)}

\* Parser::addition
addition(p) == UNION {addition_loop(l) : l \in multiplication(p)}

\* The while (left) loop of Parser::shift; l.node is left.
shift_loop(l) ==
  LET Right(m) ==
        UNION {IF r.node = Null THEN {r}
               ELSE shift_loop(Ret(r, BinaryExpression(m.cur.loc, m.cur.kind,
                                                       l.node, r.node)))
                 : r \in Invoke("addition", m, NoArgs)}
  IN IF l.node = Null THEN {l}
     ELSE UNION {IF m.hit THEN Right(m) ELSE {m} : m \in matchAny(l, <<"SHL", "SHR", "USHR">>)}

\* Parser::shift
shift(p) == UNION {shift_loop(l) : l \in addition(p)}

\* The while (left) loop of Parser::bitand_; l.node is left.
bitand__loop(l) ==
  LET Right(m) ==
        UNION {IF r.node = Null THEN {r}
               ELSE bitand__loop(Ret(r, BinaryExpression(m.cur.loc, m.cur.kind,
                                                       l.node, r.node)))
                 : r \in Invoke("shift", m, NoArgs)}
  IN IF l.node = Null THEN {l}
     ELSE UNION {IF m.hit THEN Right(m) ELSE {m} : m \in match(l, "BITAND")}

\* Parser::bitand_
bitand_(p) == UNION {bitand__loop(l) : l \in shift(p)}

\* The while (left) loop of Parser::bitxor; l.node is left.
bitxor_loop(l) ==
  LET Right(m) ==
        UNION {IF r.node = Null THEN {r}
               ELSE bitxor_loop(Ret(r, BinaryExpression(m.cur.loc, m.cur.kind,
                                                       l.node, r.node)))
                 : r \in Invoke("shift", m, NoArgs)}
  IN IF l.node = Null THEN {l}
     ELSE UNION {IF m.hit THEN Right(m) ELSE {m} : m \in match(l, "BITXOR")}

\* Parser::bitxor
bitxor(p) == UNION {bitxor_loop(l) : l \in bitand_(p)}

\* The while (left) loop of Parser::bitor_; l.node is left.
bitor__loop(l) ==
  LET Right(m) ==
        UNION {IF r.node = Null THEN {r}
               ELSE bitor__loop(Ret(r, BinaryExpression(m.cur.loc, m.cur.kind,
                                                       l.node, r.node)))
                 : r \in Invoke("bitxor", m, NoArgs)}
  IN IF l.node = Null THEN {l}
     ELSE UNION {IF m.hit THEN Right(m) ELSE {m} : m \in match(l, "BITOR")}

\* Parser::bitor_
bitor_(p) == UNION {bitor__loop(l) : l \in bitxor(p)}

\* Mutant of the loop of Parser::relational: the diagnostic is raised by the
\* third chained operator instead of the second.
relational_loop_ThirdOperator(l, count) ==
  LET Right(q) ==
        UNION {IF r.node = Null THEN {r}
               ELSE IF count + 1 > 2
                 THEN {Ret(reportError(r, q.cur.loc, "NoChainedRelationalOps"), Null)}
               ELSE relational_loop(Ret(r, BinaryExpression(q.cur.loc, q.cur.kind,
                                                            l.node, r.node)),
                                    count + 1)
                 : r \in Invoke("shift", q, NoArgs)}
  IN IF l.node = Null THEN {l}
     ELSE IF peek(l) \notin {"LT", "LE", "GT", "GE"} THEN {l}
     ELSE UNION {Right(q) : q \in {next(l)}}

\* The while (left) loop of Parser::relational; l.node is left, count the
\* number of relational operators built so far.
relational_loop(l, count) ==
  LET Right(q) ==
        UNION {IF r.node = Null THEN {r}
               ELSE IF count + 1 > 1
                 THEN {Ret(reportError(r, q.cur.loc, "NoChainedRelationalOps"), Null)}
               ELSE relational_loop(Ret(r, BinaryExpression(q.cur.loc, q.cur.kind,
                                                            l.node, r.node)),
                                    count + 1)
                 : r \in Invoke("shift", q, NoArgs)}
  IN IF l.node = Null THEN {l}
     ELSE IF peek(l) \notin {"LT", "LE", "GT", "GE"} THEN {l}
     ELSE UNION {Right(q) : q \in {next(l)}}

\* Parser::relational
relational(p) == UNION {relational_loop(l, 0) : l \in bitor_(p)}

\* The while (left) loop of Parser::equals; l.node is left.
equals_loop(l) ==
  LET Right(m) ==
        UNION {IF r.node = Null THEN {r}
               ELSE equals_loop(Ret(r, BinaryExpression(m.cur.loc, m.cur.kind,
                                                       l.node, r.node)))
                 : r \in Invoke("relational", m, NoArgs)}
  IN IF l.node = Null THEN {l}
     ELSE UNION {IF m.hit THEN Right(m) ELSE {m} : m \in matchAny(l, <<"EQUALS", "NOTEQUALS">>)}

\* Parser::equals
equals(p) == UNION {equals_loop(l) : l \in relational(p)}

\* The while (left) loop of Parser::and_; l.node is left.
and__loop(l) ==
  LET Right(m) ==
        UNION {IF r.node = Null THEN {r}
               ELSE and__loop(Ret(r, BinaryExpression(m.cur.loc, m.cur.kind,
                                                       l.node, r.node)))
                 : r \in Invoke("equals", m, NoArgs)}
  IN IF l.node = Null THEN {l}
     ELSE UNION {IF m.hit THEN Right(m) ELSE {m} : m \in match(l, "AND")}

\* Parser::and_
and_(p) == UNION {and__loop(l) : l \in equals(p)}

\* The while (left) loop of Parser::or_; l.node is left.
or__loop(l) ==
  LET Right(m) ==
        UNION {IF r.node = Null THEN {r}
               ELSE or__loop(Ret(r, BinaryExpression(m.cur.loc, m.cur.kind,
                                                       l.node, r.node)))
                 : r \in Invoke("and_", m, NoArgs)}
  IN IF l.node = Null THEN {l}
     ELSE UNION {IF m.hit THEN Right(m) ELSE {m} : m \in match(l, "OR")}

\* Parser::or_
or_(p) == UNION {or__loop(l) : l \in and_(p)}

\* A call recorded in calls: the function, the scanner's position and
\* label setting at the call.
Note(p, inv, fn, flags) ==
  [p EXCEPT !.calls = Append(@, [inv |-> inv, fn |-> fn, pos |-> p.pos, tags |-> p.tags,
                                 flags |-> flags])]

\* Parser::ternary.  disableTags lives until the function returns: label
\* recognition is off from the `?` on and is restored on every return.  The
\* call of expression() for the middle and for the right operand is recorded
\* in calls with the setting it runs under and the one ternary() was entered
\* with.
ternary(p) ==
  LET Restore(x, entry_tags) == SetTags(x, entry_tags)
      Operand(q, which, entry_tags) ==
        Note(q, 0, which, IF entry_tags THEN {"AllowTags"} ELSE {})
      Third(c, pos, cond, left, entry_tags) ==
        IF ~c.hit THEN {Restore(Ret(c, Null), entry_tags)}
        ELSE {Restore(IF r.node = Null THEN r
                      ELSE Ret(r, [kind |-> "TernaryExpression", pos |-> pos,
                                   cond |-> cond, left |-> left, right |-> r.node]),
                      entry_tags)
                : r \in Invoke("expression", Operand(c, "right", entry_tags), NoArgs)}
      Second(m, cond) ==
        UNION {IF x.node = Null THEN {Restore(x, m.tags)}
               ELSE UNION {Third(c, begin(m), cond, x.node, m.tags)
                             : c \in {expect(x, "COLON")}}
                 : x \in UNION {Invoke("expression", Operand(t, "middle", m.tags), NoArgs)
                                  : t \in {SetTags(m, FALSE)}}}
      First(c) ==
        IF c.node = Null THEN {c}
        ELSE UNION {IF m.hit THEN Second(m, c.node) ELSE {m} : m \in match(c, "QMARK")}
  IN UNION {First(c) : c \in or_(p)}

\* TOK_ASSIGN, and TOK_ASSIGN_ADD .. TOK_ASSIGN_SHL.
IsAssignToken(kind) ==
  kind \in {"ASSIGN", "ASSIGN_ADD", "ASSIGN_SUB", "ASSIGN_MUL", "ASSIGN_DIV", "ASSIGN_MOD",
            "ASSIGN_BITAND", "ASSIGN_BITOR", "ASSIGN_BITXOR", "ASSIGN_SHR", "ASSIGN_USHR",
            "ASSIGN_SHL"}

\* The while (left) loop of Parser::assignment; l.node is left.
assignment_loop(l) ==
  LET Right(q) ==
        UNION {IF r.node = Null THEN {r}
               ELSE assignment_loop(Ret(r, [kind |-> "Assignment", pos |-> q.cur.loc,
                                            token |-> q.cur.kind, left |-> l.node,
                                            right |-> r.node]))
                 : r \in assignment(q)}
  IN IF l.node = Null THEN {l}
     ELSE IF ~IsAssignToken(peek(l)) THEN {l}
     ELSE UNION {Right(q) : q \in {next(l)}}

\* Parser::assignment
assignment(p) == UNION {assignment_loop(l) : l \in ternary(p)}

\* Parser::expression
expression(p) == assignment(p)

(***************************************************************************)
(* Declarations.  A TypeSpecifier is a record; a Declaration is a name     *)
(* token and a TypeSpecifier.  A production that fills a TypeSpecifier     *)
(* returns it in the spec field of the state, one that fills a Declaration *)
(* in the decl field, and a bool result in hit.                            *)
(***************************************************************************)
TypeSpecifier ==
  [isConst |-> FALSE, isByRef |-> FALSE, isVariadic |-> FALSE, variadicLoc |-> 0,
   resolver |-> "NONE",
   proxy |-> Null, signature |-> Null, rank |-> 0, dims |-> Null, hasPostDims |-> FALSE]

Declaration == [name |-> Null, spec |-> TypeSpecifier]

setBuiltinType(spec, kind) == [spec EXCEPT !.resolver = kind]

setNamedType(spec, kind, proxy) == [spec EXCEPT !.resolver = kind, !.proxy = proxy]

setFunctionType(spec, signature) ==
  [spec EXCEPT !.resolver = "FUNCTION", !.signature = signature]

setRank(spec, rank) == [spec EXCEPT !.rank = rank]

setDimensionSizes(spec, dims) == [spec EXCEPT !.rank = Len(dims.exprs), !.dims = dims]

\* An ExpressionList
ExpressionList(exprs) == [kind |-> "ExpressionList", exprs |-> exprs]

isArray(spec) == spec.rank > 0

isNewDecl(spec) == spec.resolver \notin {"LABEL", "IMPLICIT_INT"}

resetWithAttrs(spec) == [TypeSpecifier EXCEPT !.isConst = spec.isConst]

resetArray(spec) == [spec EXCEPT !.rank = 0, !.dims = Null]

\* DeclFlags::NamedMask
NamedMask == {"MaybeFunction", "Argument", "Variable", "Field", "MaybeNamed"}

\* *spec = s (the TypeSpecifier the production was handed)
OutSpec(p, s) == [p EXCEPT !.spec = s]

\* *decl = d; return ok
OutDecl(p, d, ok) == [p EXCEPT !.decl = d, !.hit = ok]

\* The calls of parse_old_decl and parse_new_decl made by parse_decl are
\* recorded in calls, each with the number of the parse_decl invocation
\* that made it.
Invocation(p) == Len(SelectSeq(p.calls, LAMBDA c : c.fn = "parse_decl")) + 1

\* Parser::parse_new_typename; p.cur is *tok.
parse_new_typename(p, spec, tok) ==
  LET named == setNamedType(spec, "NAME", NameProxy(p.cur))
  IN CASE IsNewTypeToken(tok.kind) -> OutSpec(p, setBuiltinType(spec, tok.kind))
       [] tok.kind = "LABEL" ->
            OutSpec(reportError(p, begin(p), "NewDeclsRequired"),
                    setNamedType(spec, "LABEL", NameProxy(p.cur)))
       [] tok.kind \notin {"NAME", "LABEL"} /\ ~IsNewTypeToken(tok.kind) ->
            OutSpec(reportError(p, begin(p), "ExpectedTypeExpr"), spec)
       [] OTHER ->
            IF p.cur.name \in {"Float", "String", "_"}
              THEN OutSpec(reportError(p, begin(p), "TypeIsDeprecated"), named)
              ELSE OutSpec(p, named)

\* Parser::parse_function_type
parse_function_type(p, spec, flags) ==
  UNION {{IF a.node = Null THEN OutSpec(a, spec)
          ELSE OutSpec(a, setFunctionType(spec, [returnType |-> r.spec,
                                                 params |-> a.node]))
            : a \in Invoke("arguments", r, NoArgs)}
           : r \in Invoke("parse_new_type_expr", p, [spec |-> TypeSpecifier, flags |-> {}])}

\* The do-while loop of Parser::parse_new_type_expr: the prefix dimensions.
parse_new_type_expr_loop(p, spec, rank) ==
  UNION {UNION {IF n.hit THEN parse_new_type_expr_loop(n, spec, rank + 1)
                ELSE {OutSpec(n, setRank(spec, rank + 1))}
                  : n \in match(IF m.hit THEN m
                                ELSE reportError(m, begin(m), "FixedArrayInPrefix"),
                                "LBRACKET")}
           : m \in match(p, "RBRACKET")}

\* Parser::parse_new_type_expr
parse_new_type_expr(p, spec, flags) ==
  LET ByRef(q) ==
        IF "Argument" \notin flags THEN {q}
        ELSE {IF ~m.hit THEN m
              ELSE IF ~isArray(m.spec) THEN OutSpec(m, [m.spec EXCEPT !.isByRef = TRUE])
              ELSE reportError(m, begin(m), "TypeCannotBeReference")
                : m \in match(q, "AMPERSAND")}
      Rank(q) ==
        IF isArray(q.spec) THEN ByRef(q)
        ELSE UNION {IF ~m.hit THEN ByRef(m)
                    ELSE UNION {ByRef(r) : r \in parse_new_type_expr_loop(m, m.spec, 0)}
                      : m \in match(q, "LBRACKET")}
      Close(q, lparen) ==
        IF lparen THEN UNION {Rank(m) : m \in match(q, "RPAREN")} ELSE Rank(q)
      Type(f, s, lparen) ==
        IF f.hit
          THEN UNION {Close(t, lparen)
                        : t \in Invoke("parse_function_type", f, [spec |-> s, flags |-> flags])}
          ELSE UNION {Close(t, lparen)
                        : t \in {parse_new_typename(n, s, n.cur) : n \in {next(f)}}}
      Function(l, s) ==
        IF l.hit THEN Type(expect(l, "FUNCTION"), s, TRUE)
        ELSE UNION {Type(f, s, FALSE) : f \in match(l, "FUNCTION")}
      Const(c) ==
        IF ~c.hit THEN spec
        ELSE [spec EXCEPT !.isConst = TRUE]
  IN UNION {UNION {Function(l, Const(c))
                     : l \in match(IF c.hit /\ spec.isConst
                                     THEN reportError(c, begin(c), "ConstSpecifiedTwice")
                                     ELSE c,
                                   "LPAREN")}
              : c \in match(p, "CONST")}

\* The do-while loop of Parser::parse_old_array_dims and the code after it.
\* A sized dimension allocates the list with one null slot per dimension
\* seen so far, the current one included.
parse_old_array_dims_loop(p, decl, loc, rank, dims) ==
  LET Finish(q, n, list) ==
        IF isArray(decl.spec) THEN OutDecl(reportError(q, loc, "DoubleArrayDims"), decl, q.hit)
        ELSE OutDecl(q,
                     [decl EXCEPT !.spec = [(IF list # Null
                                               THEN setDimensionSizes(decl.spec, list)
                                               ELSE setRank(decl.spec, n))
                                              EXCEPT !.hasPostDims = TRUE]],
                     q.hit)
      Again(q, n, list) ==
        UNION {IF m.hit THEN parse_old_array_dims_loop(m, decl, loc, n, list)
               ELSE {Finish(m, n, list)}
                 : m \in match(q, "LBRACKET")}
      Allocated ==
        IF dims # Null THEN dims ELSE ExpressionList([i \in 1..(rank + 1) |-> Null])
      Appended(list, e) == ExpressionList(Append(list.exprs, e))
      Sized(x) ==
        IF x.node = Null THEN {Finish(x, rank + 1, Allocated)}
        ELSE UNION {IF ~e.hit THEN {Finish(e, rank + 1, Appended(Allocated, x.node))}
                    ELSE Again(e, rank + 1, Appended(Allocated, x.node))
                      : e \in {expect(x, "RBRACKET")}}
  IN UNION {IF m.hit
              THEN Again(m, rank + 1, IF dims # Null THEN Appended(dims, Null) ELSE dims)
              ELSE UNION {Sized(x) : x \in Invoke("expression", m, NoArgs)}
              : m \in match(p, "RBRACKET")}

\* Parser::parse_old_array_dims
parse_old_array_dims(p, decl, flags) ==
  parse_old_array_dims_loop(
    IF decl.spec.isByRef THEN reportError(p, begin(p), "TypeCannotBeReference") ELSE p,
    decl, begin(p), 0, Null)

\* Parser::parse_new_decl
parse_new_decl(p, decl, flags) ==
  LET Dims(n, d) ==
        UNION {IF ~m.hit THEN {OutDecl(m, d, TRUE)}
               ELSE {OutDecl(a, a.decl, TRUE)
                       : a \in Invoke("parse_old_array_dims", m, [decl |-> d, flags |-> flags])}
                 : m \in match(n, "LBRACKET")}
      Named(n, d) == Dims(n, [d EXCEPT !.name = n.cur])
      Name(s, d) ==
        IF flags \cap NamedMask = {} THEN {OutDecl(s, d, TRUE)}
        ELSE IF "MaybeNamed" \in flags
          THEN UNION {IF m.hit THEN Named(m, d) ELSE {OutDecl(m, d, TRUE)}
                        : m \in match(s, "NAME")}
        ELSE UNION {IF e.hit THEN Named(e, d) ELSE {OutDecl(e, d, FALSE)}
                      : e \in {expect(s, "NAME")}}
  IN UNION {Name(s, [decl EXCEPT !.spec = s.spec])
              : s \in Invoke("parse_new_type_expr", p, [spec |-> decl.spec, flags |-> flags])}

\* Parser::parse_old_decl
parse_old_decl(p, decl, flags) ==
  LET Dims(n, d) ==
        UNION {IF ~m.hit THEN {OutDecl(m, d, TRUE)}
               ELSE {OutDecl(a, a.decl, TRUE)
                       : a \in Invoke("parse_old_array_dims", m, [decl |-> d, flags |-> flags])}
                 : m \in match(n, "LBRACKET")}
      Name(q, d) ==
        UNION {IF e.hit THEN Dims(e, [d EXCEPT !.name = e.cur]) ELSE {OutDecl(e, d, FALSE)}
                 : e \in {expect(q, "NAME")}}
      Keyword(q, d) ==
        IF peekIs(q, "NAME") THEN Name(q, d)
        ELSE UNION {IF IsNewTypeToken(n.cur.kind)
                      THEN Name(reportError(n, begin(n), "NewStyleBadKeyword"), d)
                      ELSE UNION {Name(u, d) : u \in undo(n)}
                      : n \in {next(q)}}
      Named(q, d) ==
        IF flags \cap NamedMask = {} THEN {OutDecl(q, d, TRUE)} ELSE Keyword(q, d)
      Varargs(q, d) ==
        IF "Argument" \notin flags THEN Named(q, d)
        ELSE UNION {IF m.hit
                      THEN {OutDecl(m, [d EXCEPT !.spec.isVariadic = TRUE,
                                                !.spec.variadicLoc = begin(m)], TRUE)}
                      ELSE Named(m, d)
                      : m \in match(q, "ELLIPSES")}
      Label(q, d) ==
        UNION {Varargs(m, [d EXCEPT !.spec = IF m.hit
                                                THEN setNamedType(@, "LABEL", NameProxy(m.cur))
                                                ELSE setBuiltinType(@, "IMPLICIT_INT")])
                 : m \in match(q, "LABEL")}
      ByRef(q, d) ==
        IF "Argument" \notin flags THEN Label(q, d)
        ELSE UNION {Label(m, IF m.hit THEN [d EXCEPT !.spec.isByRef = TRUE] ELSE d)
                      : m \in match(q, "AMPERSAND")}
  IN UNION {ByRef(IF c.hit /\ decl.spec.isConst
                    THEN reportError(c, begin(c), "ConstSpecifiedTwice")
                    ELSE c,
                  IF c.hit THEN [decl EXCEPT !.spec.isConst = TRUE] ELSE decl)
              : c \in match(p, "CONST")}

\* Parser::reparse_decl, were the array of the previous declarator kept.
reparse_decl_KeepsArray(p, decl, flags) ==
  LET PostDims(e, d) ==
        UNION {IF ~m.hit THEN {OutDecl(m, d, TRUE)}
               ELSE {OutDecl(a, a.decl, TRUE)
                       : a \in Invoke("parse_old_array_dims", m, [decl |-> d, flags |-> flags])}
                 : m \in match(e, "LBRACKET")}
      NoPostDims(e, d) ==
        {OutDecl([(IF m.hit /\ isArray(d.spec)
                     THEN reportError(m, begin(m), "DoubleArrayDims")
                     ELSE m)
                  EXCEPT !.assertFailed = @ \/ d.spec.dims # Null],
                 d, TRUE)
           : m \in match(e, "LBRACKET")}
      New(e, d) ==
        IF ~e.hit THEN {OutDecl(e, decl, FALSE)}
        ELSE IF decl.spec.hasPostDims
          THEN PostDims(e, d)
        ELSE NoPostDims(e, d)
  IN IF ~isNewDecl(decl.spec)
       THEN Invoke("parse_old_decl", p,
                   [decl |-> [decl EXCEPT !.spec = resetWithAttrs(@)], flags |-> flags])
       ELSE UNION {New(e, [decl EXCEPT !.name = e.cur]) : e \in {expect(p, "NAME")}}

\* Mutant of Parser::reparse_decl: an old-style declarator starts from a fresh
\* specifier.
reparse_decl_DropsConst(p, decl, flags) ==
  LET PostDims(e, d) ==
        UNION {IF ~m.hit THEN {OutDecl(m, d, TRUE)}
               ELSE {OutDecl(a, a.decl, TRUE)
                       : a \in Invoke("parse_old_array_dims", m, [decl |-> d, flags |-> flags])}
                 : m \in match(e, "LBRACKET")}
      NoPostDims(e, d) ==
        {OutDecl([(IF m.hit /\ isArray(d.spec)
                     THEN reportError(m, begin(m), "DoubleArrayDims")
                     ELSE m)
                  EXCEPT !.assertFailed = @ \/ d.spec.dims # Null],
                 d, TRUE)
           : m \in match(e, "LBRACKET")}
      New(e, d) ==
        IF ~e.hit THEN {OutDecl(e, decl, FALSE)}
        ELSE IF decl.spec.hasPostDims
          THEN PostDims(e, [d EXCEPT !.spec = resetArray(@)])
        ELSE NoPostDims(e, d)
  IN IF ~isNewDecl(decl.spec)
       THEN Invoke("parse_old_decl", p,
                   [decl |-> [decl EXCEPT !.spec = TypeSpecifier], flags |-> flags])
       ELSE UNION {New(e, [decl EXCEPT !.name = e.cur]) : e \in {expect(p, "NAME")}}

\* Parser::reparse_decl
reparse_decl(p, decl, flags) ==
  LET PostDims(e, d) ==
        UNION {IF ~m.hit THEN {OutDecl(m, d, TRUE)}
               ELSE {OutDecl(a, a.decl, TRUE)
                       : a \in Invoke("parse_old_array_dims", m, [decl |-> d, flags |-> flags])}
                 : m \in match(e, "LBRACKET")}
      NoPostDims(e, d) ==
        {OutDecl([(IF m.hit /\ isArray(d.spec)
                     THEN reportError(m, begin(m), "DoubleArrayDims")
                     ELSE m)
                  EXCEPT !.assertFailed = @ \/ d.spec.dims # Null],
                 d, TRUE)
           : m \in match(e, "LBRACKET")}
      New(e, d) ==
        IF ~e.hit THEN {OutDecl(e, decl, FALSE)}
        ELSE IF decl.spec.hasPostDims
          THEN PostDims(e, [d EXCEPT !.spec = resetArray(@)])
        ELSE NoPostDims(e, d)
  IN IF ~isNewDecl(decl.spec)
       THEN Invoke("parse_old_decl", p,
                   [decl |-> [decl EXCEPT !.spec = resetWithAttrs(@)], flags |-> flags])
       ELSE UNION {New(e, [decl EXCEPT !.name = e.cur]) : e \in {expect(p, "NAME")}}

\* Mutant of Parser::parse_decl: a NAME followed by a NAME is handed to
\* parse_old_decl.
parse_decl_NameNameOld(p, decl, flags) ==
  LET inv == Invocation(p)
      Old(q, d) ==
        Invoke("parse_old_decl", Note(q, inv, "parse_old_decl", flags), [decl |-> d, flags |-> flags])
      New(q, d) ==
        Invoke("parse_new_decl", Note(q, inv, "parse_new_decl", flags), [decl |-> d, flags |-> flags])
      Dims(a, name) ==
        IF peekIs(a, "NAME") \/ peekIs(a, "AMPERSAND")
          THEN New(pushBack(a, name), [a.decl EXCEPT !.spec.hasPostDims = FALSE])
          ELSE {OutDecl(a, [a.decl EXCEPT !.name = name,
                                          !.spec = setBuiltinType(@, "INT")], TRUE)}
      Name(n, d) ==
        IF peekIs(n, "NAME") \/ peekIs(n, "AMPERSAND")
          THEN UNION {Old(u, d) : u \in undo(n)}
        ELSE IF flags \cap NamedMask = {}
          THEN UNION {Old(u, d) : u \in undo(n)}
        ELSE UNION {IF m.hit
                      THEN UNION {Dims(a, n.cur)
                                    : a \in Invoke("parse_old_array_dims", m,
                                                   [decl |-> d, flags |-> flags])}
                      ELSE UNION {Old(u, d) : u \in undo(m)}
                      : m \in match(n, "LBRACKET")}
      Style(c, d) ==
        IF "Old" \in flags THEN Old(c, d)
        ELSE IF "Argument" \in flags /\ (peekIs(c, "AMPERSAND") \/ peekIs(c, "LBRACE"))
          THEN Old(c, d)
        ELSE IF peekIs(c, "LABEL") THEN Old(c, d)
        ELSE UNION {IF m.hit THEN Name(m, d) ELSE New(m, d) : m \in match(c, "NAME")}
  IN IF "Argument" \in flags /\ peekIs(p, "ELLIPSES")
       THEN Old(Note(p, inv, "parse_decl", flags), decl)
       ELSE UNION {Style(c, IF c.hit THEN [decl EXCEPT !.spec.isConst = TRUE] ELSE decl)
                     : c \in match(Note(p, inv, "parse_decl", flags), "CONST")}

\* Parser::parse_decl
parse_decl(p, decl, flags) ==
  LET inv == Invocation(p)
      Old(q, d) ==
        Invoke("parse_old_decl", Note(q, inv, "parse_old_decl", flags), [decl |-> d, flags |-> flags])
      New(q, d) ==
        Invoke("parse_new_decl", Note(q, inv, "parse_new_decl", flags), [decl |-> d, flags |-> flags])
      Dims(a, name) ==
        IF peekIs(a, "NAME") \/ peekIs(a, "AMPERSAND")
          THEN New(pushBack(a, name), [a.decl EXCEPT !.spec.hasPostDims = FALSE])
          ELSE {OutDecl(a, [a.decl EXCEPT !.name = name,
                                          !.spec = setBuiltinType(@, "INT")], TRUE)}
      Name(n, d) ==
        IF peekIs(n, "NAME") \/ peekIs(n, "AMPERSAND")
          THEN UNION {New(u, d) : u \in undo(n)}
        ELSE IF flags \cap NamedMask = {}
          THEN UNION {Old(u, d) : u \in undo(n)}
        ELSE UNION {IF m.hit
                      THEN UNION {Dims(a, n.cur)
                                    : a \in Invoke("parse_old_array_dims", m,
                                                   [decl |-> d, flags |-> flags])}
                      ELSE UNION {Old(u, d) : u \in undo(m)}
                      : m \in match(n, "LBRACKET")}
      Style(c, d) ==
        IF "Old" \in flags THEN Old(c, d)
        ELSE IF "Argument" \in flags /\ (peekIs(c, "AMPERSAND") \/ peekIs(c, "LBRACE"))
          THEN Old(c, d)
        ELSE IF peekIs(c, "LABEL") THEN Old(c, d)
        ELSE UNION {IF m.hit THEN Name(m, d) ELSE New(m, d) : m \in match(c, "NAME")}
  IN IF "Argument" \in flags /\ peekIs(p, "ELLIPSES")
       THEN Old(Note(p, inv, "parse_decl", flags), decl)
       ELSE UNION {Style(c, IF c.hit THEN [decl EXCEPT !.spec.isConst = TRUE] ELSE decl)
                     : c \in match(Note(p, inv, "parse_decl", flags), "CONST")}

\* The for (;;) loop of Parser::arguments and the code after it.
arguments_loop(p, params, variadic) ==
  LET Finish(q, list) ==
        {Ret(expect(q, "RPAREN"), [kind |-> "ParameterList", params |-> list])}
      Param(d, init) ==
        [kind |-> "VariableDeclaration", name |-> d.name, spec |-> d.spec, init |-> init]
      Comma(q, d, init) ==
        UNION {IF c.hit
                 THEN arguments_loop(c, Append(params, Param(d, init)),
                                     variadic \/ d.spec.isVariadic)
                 ELSE Finish(c, Append(params, Param(d, init)))
                 : c \in match(IF d.spec.isVariadic /\ variadic
                                 THEN reportError(q, d.spec.variadicLoc, "MultipleVarargs")
                                 ELSE q,
                               "COMMA")}
      Init(d) ==
        UNION {IF a.hit
                 THEN UNION {Comma(x, d.decl, x.node) : x \in Invoke("expression", a, NoArgs)}
                 ELSE Comma(a, d.decl, Null)
                 : a \in match(d, "ASSIGN")}
  IN UNION {IF d.hit THEN Init(d) ELSE Finish(d, params)
              : d \in Invoke("parse_decl", p, [decl |-> Declaration, flags |-> {"Argument"}])}

\* Parser::arguments
arguments(p) ==
  LET Open(e) ==
        IF ~e.hit THEN {Ret(e, Null)}
        ELSE UNION {IF m.hit THEN {Ret(m, [kind |-> "ParameterList", params |-> <<>>])}
                    ELSE arguments_loop(m, <<>>, FALSE)
                      : m \in match(e, "RPAREN")}
  IN Open(expect(p, "LPAREN"))

(***************************************************************************)
(* Statements.                                                             *)
(***************************************************************************)
\* SaveAndSet<bool> on allowDeclarations_: the destructor restores the value
\* found on entry.
SetAllowDeclarations(p, v) == [p EXCEPT !.allowDeclarations = v]

\* return nullptr
Fail(p) == Ret(p, Null)

\* Parser::while_
while_(p) ==
  LET Body(r, cond) ==
        {IF b.node = Null THEN b
         ELSE Ret(requireNewline(b),
                  [kind |-> "WhileStatement", pos |-> begin(p), token |-> "WHILE",
                   condition |-> cond, body |-> b.node])
           : b \in Invoke("statementOrBlock", r, NoArgs)}
      Close(c) ==
        IF c.node = Null THEN {c}
        ELSE UNION {IF r.hit THEN Body(r, c.node) ELSE {Fail(r)}
                      : r \in {expect(c, "RPAREN")}}
      Open(e) ==
        IF ~e.hit THEN {Fail(e)}
        ELSE UNION {Close(c) : c \in Invoke("expression", e, NoArgs)}
  IN Open(expect(p, "LPAREN"))

\* Parser::do_
do_(p) ==
  LET Term(r, cond, body) ==
        {Ret(t, [kind |-> "WhileStatement", pos |-> begin(p), token |-> "DO",
                 condition |-> cond, body |-> body])
           : t \in requireTerminator(r)}
      Close(c, body) ==
        IF c.node = Null THEN {c}
        ELSE UNION {IF r.hit THEN Term(r, c.node, body) ELSE {Fail(r)}
                      : r \in {expect(c, "RPAREN")}}
      Open(e, body) ==
        IF ~e.hit THEN {Fail(e)}
        ELSE UNION {Close(c, body) : c \in Invoke("expression", e, NoArgs)}
      While(w, body) ==
        IF ~w.hit THEN {Fail(w)} ELSE Open(expect(w, "LPAREN"), body)
  IN UNION {IF b.node = Null THEN {b} ELSE While(expect(b, "WHILE"), b.node)
              : b \in Invoke("block", next(p), NoArgs)}

\* The IfStatement of arms[i], the later arms and the final else nested in
\* its ifFalse: last->setIfFalse(...).
IfChain(arms, i, ifFalse) ==
  [kind |-> "IfStatement", pos |-> arms[i].pos, cond |-> arms[i].cond,
   ifTrue |-> arms[i].ifTrue,
   ifFalse |-> IF i = Len(arms) THEN ifFalse ELSE IfChain(arms, i + 1, ifFalse)]

\* The while (match(TOK_ELSE)) loop of Parser::if_ and the code after it.
\* arms holds the IfStatements built so far, outermost first.
if__loop(p, arms) ==
  LET Done(q, ifFalse) == {Ret(requireNewline(q), IfChain(arms, 1, ifFalse))}
      Body(r, pos, cond) ==
        UNION {IF b.node = Null THEN {b}
               ELSE if__loop(b, Append(arms, [pos |-> pos, cond |-> cond,
                                              ifTrue |-> b.node]))
                 : b \in Invoke("statementOrBlock", r, NoArgs)}
      Close(c, pos) ==
        IF c.node = Null THEN {c}
        ELSE UNION {IF r.hit THEN Body(r, pos, c.node) ELSE {Fail(r)}
                      : r \in {expect(c, "RPAREN")}}
      Open(e, pos) ==
        IF ~e.hit THEN {Fail(e)}
        ELSE UNION {Close(c, pos) : c \in Invoke("expression", e, NoArgs)}
      Else(i) ==
        IF i.hit THEN Open(expect(i, "LPAREN"), begin(i))
        ELSE UNION {IF b.node = Null THEN {b} ELSE Done(b, b.node)
                      : b \in Invoke("statementOrBlock", i, NoArgs)}
  IN UNION {IF m.hit THEN UNION {Else(i) : i \in match(m, "IF")} ELSE Done(m, Null)
              : m \in match(p, "ELSE")}

\* Mutant of Parser::if_: a condition that failed to parse is not checked.
if__ConditionNotChecked(p) ==
  LET Body(r, cond) ==
        UNION {IF b.node = Null THEN {b}
               ELSE if__loop(b, <<[pos |-> begin(p), cond |-> cond, ifTrue |-> b.node]>>)
                 : b \in Invoke("statementOrBlock", r, NoArgs)}
      Close(c) ==
        UNION {IF r.hit THEN Body(r, c.node) ELSE {Fail(r)}
                 : r \in {expect(c, "RPAREN")}}
      Open(e) ==
        IF ~e.hit THEN {Fail(e)}
        ELSE UNION {Close(c) : c \in Invoke("expression", e, NoArgs)}
  IN Open(expect(p, "LPAREN"))

\* Parser::if_
if_(p) ==
  LET Body(r, cond) ==
        UNION {IF b.node = Null THEN {b}
               ELSE if__loop(b, <<[pos |-> begin(p), cond |-> cond, ifTrue |-> b.node]>>)
                 : b \in Invoke("statementOrBlock", r, NoArgs)}
      Close(c) ==
        IF c.node = Null THEN {c}
        ELSE UNION {IF r.hit THEN Body(r, c.node) ELSE {Fail(r)}
                      : r \in {expect(c, "RPAREN")}}
      Open(e) ==
        IF ~e.hit THEN {Fail(e)}
        ELSE UNION {Close(c) : c \in Invoke("expression", e, NoArgs)}
  IN Open(expect(p, "LPAREN"))

\* The while (match(TOK_COMMA)) loop of the case values in Parser::switch_;
\* the result is the list of the other values, or no node.
switch__others(p, others) ==
  UNION {IF ~m.hit THEN {Ret(m, [kind |-> "ExpressionList", exprs |-> others])}
         ELSE UNION {IF x.node = Null THEN {x}
                     ELSE switch__others(x, Append(others, x.node))
                       : x \in Invoke("expression", m, NoArgs)}
           : m \in match(p, "COMMA")}

\* Mutant of the loop of Parser::switch_: DefaultMustBeLastCase is located
\* at the case that follows the default.
switch__loop_AtCase(p, sw) ==
  LET Add(q, w, value, others, stmt) ==
        IF value # Null
          THEN switch__loop(q, [w EXCEPT !.cases = Append(@, [expr |-> value,
                                                              others |-> others,
                                                              stmt |-> stmt])])
          ELSE switch__loop(q, [w EXCEPT !.defaultCase = stmt])
      Single(n, w, value, others, stmt) ==
        IF ~peekIs(n, "CASE") /\ ~peekIs(n, "DEFAULT") /\ ~peekIs(n, "RBRACE")
          THEN {Fail(reportError(n, begin(n), "SingleStatementPerCase"))}
          ELSE Add(n, w, value, others, stmt)
      Colon(c, w, value, others) ==
        IF ~c.hit THEN {Fail(c)}
        ELSE UNION {IF s.node = Null THEN {s}
                    ELSE Single(requireNewline(s), w, value, others, s.node)
                      : s \in Invoke("statementOrBlock", c, NoArgs)}
      Others(x) ==
        IF x.node = Null THEN {SetTags(x, p.tags)}
        ELSE IF ~peekIs(x, "COMMA")
          THEN Colon(expect(SetTags(x, p.tags), "COLON"), sw, x.node, Null)
        ELSE UNION {IF o.node = Null THEN {SetTags(o, p.tags)}
                    ELSE Colon(expect(SetTags(o, p.tags), "COLON"), sw, x.node, o.node)
                      : o \in switch__others(x, <<>>)}
      Case(d) ==
        IF sw.defaultCase # Null
          THEN {Fail(reportError(d, Lex(d).tok.loc, "DefaultMustBeLastCase"))}
        ELSE UNION {IF ~e.hit THEN {Fail(e)}
                    ELSE UNION {Others(x)
                                  : x \in Invoke("expression", SetTags(e, FALSE), NoArgs)}
                      : e \in {expect(d, "CASE")}}
      Default(d) ==
        IF sw.defaultCase # Null
          THEN {Fail(reportError(d, begin(d), "OneDefaultPerSwitch"))}
          ELSE Colon(expect(d, "COLON"), [sw EXCEPT !.defaultPos = begin(d)], Null, Null)
      End(e) ==
        IF ~e.hit THEN Fail(e)
        ELSE Ret(requireNewline(e),
                 [kind |-> "SwitchStatement", pos |-> sw.pos, expr |-> sw.expr,
                  cases |-> sw.cases, defaultCase |-> sw.defaultCase])
  IN IF peekIs(p, "RBRACE") THEN {End(expect(p, "RBRACE"))}
     ELSE UNION {IF d.hit THEN Default(d) ELSE Case(d) : d \in match(p, "DEFAULT")}

\* Mutant of the loop of Parser::switch_: a second `default` is accepted.
switch__loop_SecondDefault(p, sw) ==
  LET Add(q, w, value, others, stmt) ==
        IF value # Null
          THEN switch__loop(q, [w EXCEPT !.cases = Append(@, [expr |-> value,
                                                              others |-> others,
                                                              stmt |-> stmt])])
          ELSE switch__loop(q, [w EXCEPT !.defaultCase = stmt])
      Single(n, w, value, others, stmt) ==
        IF ~peekIs(n, "CASE") /\ ~peekIs(n, "DEFAULT") /\ ~peekIs(n, "RBRACE")
          THEN {Fail(reportError(n, begin(n), "SingleStatementPerCase"))}
          ELSE Add(n, w, value, others, stmt)
      Colon(c, w, value, others) ==
        IF ~c.hit THEN {Fail(c)}
        ELSE UNION {IF s.node = Null THEN {s}
                    ELSE Single(requireNewline(s), w, value, others, s.node)
                      : s \in Invoke("statementOrBlock", c, NoArgs)}
      Others(x) ==
        IF x.node = Null THEN {SetTags(x, p.tags)}
        ELSE IF ~peekIs(x, "COMMA")
          THEN Colon(expect(SetTags(x, p.tags), "COLON"), sw, x.node, Null)
        ELSE UNION {IF o.node = Null THEN {SetTags(o, p.tags)}
                    ELSE Colon(expect(SetTags(o, p.tags), "COLON"), sw, x.node, o.node)
                      : o \in switch__others(x, <<>>)}
      Case(d) ==
        IF sw.defaultCase # Null
          THEN {Fail(reportError(d, sw.defaultPos, "DefaultMustBeLastCase"))}
        ELSE UNION {IF ~e.hit THEN {Fail(e)}
                    ELSE UNION {Others(x)
                                  : x \in Invoke("expression", SetTags(e, FALSE), NoArgs)}
                      : e \in {expect(d, "CASE")}}
      Default(d) ==
        IF FALSE
          THEN {Fail(reportError(d, begin(d), "OneDefaultPerSwitch"))}
          ELSE Colon(expect(d, "COLON"), [sw EXCEPT !.defaultPos = begin(d)], Null, Null)
      End(e) ==
        IF ~e.hit THEN Fail(e)
        ELSE Ret(requireNewline(e),
                 [kind |-> "SwitchStatement", pos |-> sw.pos, expr |-> sw.expr,
                  cases |-> sw.cases, defaultCase |-> sw.defaultCase])
  IN IF peekIs(p, "RBRACE") THEN {End(expect(p, "RBRACE"))}
     ELSE UNION {IF d.hit THEN Default(d) ELSE Case(d) : d \in match(p, "DEFAULT")}

\* The while (!peek(TOK_RBRACE)) loop of Parser::switch_ and the code after
\* it.  sw holds pos, expr, cases, defaultCase and defaultPos.
switch__loop(p, sw) ==
  LET Add(q, w, value, others, stmt) ==
        IF value # Null
          THEN switch__loop(q, [w EXCEPT !.cases = Append(@, [expr |-> value,
                                                              others |-> others,
                                                              stmt |-> stmt])])
          ELSE switch__loop(q, [w EXCEPT !.defaultCase = stmt])
      Single(n, w, value, others, stmt) ==
        IF ~peekIs(n, "CASE") /\ ~peekIs(n, "DEFAULT") /\ ~peekIs(n, "RBRACE")
          THEN {Fail(reportError(n, begin(n), "SingleStatementPerCase"))}
          ELSE Add(n, w, value, others, stmt)
      Colon(c, w, value, others) ==
        IF ~c.hit THEN {Fail(c)}
        ELSE UNION {IF s.node = Null THEN {s}
                    ELSE Single(requireNewline(s), w, value, others, s.node)
                      : s \in Invoke("statementOrBlock", c, NoArgs)}
      Others(x) ==
        IF x.node = Null THEN {SetTags(x, p.tags)}
        ELSE IF ~peekIs(x, "COMMA")
          THEN Colon(expect(SetTags(x, p.tags), "COLON"), sw, x.node, Null)
        ELSE UNION {IF o.node = Null THEN {SetTags(o, p.tags)}
                    ELSE Colon(expect(SetTags(o, p.tags), "COLON"), sw, x.node, o.node)
                      : o \in switch__others(x, <<>>)}
      Case(d) ==
        IF sw.defaultCase # Null
          THEN {Fail(reportError(d, sw.defaultPos, "DefaultMustBeLastCase"))}
        ELSE UNION {IF ~e.hit THEN {Fail(e)}
                    ELSE UNION {Others(x)
                                  : x \in Invoke("expression", SetTags(e, FALSE), NoArgs)}
                      : e \in {expect(d, "CASE")}}
      Default(d) ==
        IF sw.defaultCase # Null
          THEN {Fail(reportError(d, begin(d), "OneDefaultPerSwitch"))}
          ELSE Colon(expect(d, "COLON"), [sw EXCEPT !.defaultPos = begin(d)], Null, Null)
      End(e) ==
        IF ~e.hit THEN Fail(e)
        ELSE Ret(requireNewline(e),
                 [kind |-> "SwitchStatement", pos |-> sw.pos, expr |-> sw.expr,
                  cases |-> sw.cases, defaultCase |-> sw.defaultCase])
  IN IF peekIs(p, "RBRACE") THEN {End(expect(p, "RBRACE"))}
     ELSE UNION {IF d.hit THEN Default(d) ELSE Case(d) : d \in match(p, "DEFAULT")}

\* Parser::switch_
switch_(p) ==
  LET Brace(b, value) ==
        IF ~b.hit THEN {Fail(b)}
        ELSE switch__loop(b, [pos |-> begin(p), expr |-> value, cases |-> <<>>,
                              defaultCase |-> Null, defaultPos |-> 0])
      Close(c) ==
        IF c.node = Null THEN {c}
        ELSE UNION {IF r.hit THEN Brace(expect(r, "LBRACE"), c.node) ELSE {Fail(r)}
                      : r \in {expect(c, "RPAREN")}}
      Open(e) ==
        IF ~e.hit THEN {Fail(e)}
        ELSE UNION {Close(c) : c \in Invoke("expression", e, NoArgs)}
  IN Open(expect(p, "LPAREN"))

\* The forinit, forcond and forstep parts of Parser::for_ and its body.
for_(p) ==
  LET Body(r, decl, cond, update) ==
        {IF b.node = Null THEN b
         ELSE Ret(requireNewline(b),
                  [kind |-> "ForStatement", pos |-> begin(p), decl |-> decl,
                   condition |-> cond, update |-> update, body |-> b.node])
           : b \in Invoke("statementOrBlock", r, NoArgs)}
      Step(s, decl, cond) ==
        UNION {IF m.hit THEN Body(m, decl, cond, Null)
               ELSE UNION {IF u.node = Null THEN {u}
                           ELSE UNION {IF r.hit THEN Body(r, decl, cond, u.node)
                                       ELSE {Fail(r)}
                                         : r \in {expect(u, "RPAREN")}}
                             : u \in Invoke("expressionStatement", m, NoArgs)}
                 : m \in match(s, "RPAREN")}
      Cond(i, decl) ==
        UNION {IF m.hit THEN Step(m, decl, Null)
               ELSE UNION {IF c.node = Null THEN {c}
                           ELSE UNION {IF e.hit THEN Step(e, decl, c.node) ELSE {Fail(e)}
                                         : e \in {expect(c, "SEMICOLON")}}
                             : c \in Invoke("expression", m, NoArgs)}
                 : m \in match(i, "SEMICOLON")}
      Semi(d) ==
        IF d.node = Null THEN {d}
        ELSE UNION {IF e.hit THEN Cond(e, d.node) ELSE {Fail(e)}
                      : e \in {expect(d, "SEMICOLON")}}
      Init(n) ==
        IF n.hit \/ IsNewTypeToken(peek(n))
          THEN UNION {Semi(d)
                        : d \in Invoke("localVariableDeclaration", n,
                                       [kind |-> "NEW", flags |-> {"Inline"}])}
          ELSE UNION {Semi(d) : d \in Invoke("expressionStatement", n, NoArgs)}
      Open(e) ==
        IF ~e.hit THEN {Fail(e)}
        ELSE UNION {IF m.hit THEN Cond(m, Null)
                    ELSE UNION {Init(n) : n \in match(m, "NEW")}
                      : m \in match(e, "SEMICOLON")}
  IN Open(expect(p, "LPAREN"))

\* The while (match(TOK_COMMA)) loop of Parser::variable and the code after
\* it.  chain holds the chain of VariableDeclarations, first to last.
variable_loop(p, decl, attrs, chain) ==
  LET Decl(d, init) ==
        [kind |-> "VariableDeclaration", name |-> d.name, spec |-> d.spec, init |-> init]
      Done(q) ==
        IF "Inline" \in attrs THEN {Ret(q, [kind |-> "VariableDeclarations", vars |-> chain])}
        ELSE {Ret(t, [kind |-> "VariableDeclarations", vars |-> chain])
                : t \in requireTerminator(q)}
      Init(r) ==
        UNION {IF a.hit
                 THEN UNION {variable_loop(x, r.decl, attrs, Append(chain, Decl(r.decl, x.node)))
                               : x \in Invoke("expression", a, NoArgs)}
                 ELSE variable_loop(a, r.decl, attrs, Append(chain, Decl(r.decl, Null)))
                 : a \in match(r, "ASSIGN")}
  IN UNION {IF ~m.hit THEN Done(m)
            ELSE UNION {IF r.hit THEN Init(r) ELSE Done(r)
                          : r \in Invoke("reparse_decl", m,
                                         [decl |-> decl, flags |-> {"Variable"}])}
              : m \in match(p, "COMMA")}

\* Parser::variable
variable(p, tok, decl, attrs) ==
  LET Decl(init) ==
        [kind |-> "VariableDeclaration", name |-> decl.name, spec |-> decl.spec,
         init |-> init]
  IN UNION {IF a.hit
              THEN UNION {variable_loop(x, decl, attrs, <<Decl(x.node)>>)
                            : x \in Invoke("expression", a, NoArgs)}
              ELSE variable_loop(a, decl, attrs, <<Decl(Null)>>)
              : a \in match(p, "ASSIGN")}

\* Parser::localVariableDeclaration
localVariableDeclaration(p, kind, flags) ==
  UNION {IF ~d.hit THEN {Fail(d)}
         ELSE Invoke("variable", d,
                     [tok |-> kind, decl |-> d.decl, flags |-> flags \cup {"Variable"}])
           : d \in Invoke("parse_decl",
                          IF ~p.allowDeclarations
                            THEN reportError(p, begin(p), "VariableMustBeInBlock")
                            ELSE p,
                          [decl |-> Declaration, flags |-> flags \cup {"Variable"}])}

\* Parser::return_
return_(p) ==
  LET Term(q, value) ==
        {Ret(t, [kind |-> "ReturnStatement", pos |-> begin(p), expr |-> value])
           : t \in requireTerminator(q)}
  IN IF peekTokenSameLine(p) \notin {"EOL", "EOF", "SEMICOLON"}
       THEN UNION {IF x.node = Null THEN {x}
                   ELSE Term([x EXCEPT !.encounteredReturn = TRUE], x.node)
                     : x \in Invoke("expression", p, NoArgs)}
       ELSE Term(p, Null)

\* Parser::expressionStatement
expressionStatement(p) ==
  {IF l.node = Null THEN l ELSE Ret(l, [kind |-> "ExpressionStatement", expr |-> l.node])
     : l \in Invoke("assignment", p, NoArgs)}

\* The while (!match(TOK_RBRACE)) loop of Parser::statements.
statements_loop(p, list) ==
  UNION {IF m.hit THEN {Ret(m, [kind |-> "StatementList", list |-> list])}
         ELSE UNION {IF s.node = Null THEN {s}
                     ELSE statements_loop(s, Append(list, s.node))
                       : s \in Invoke("statement", m, NoArgs)}
           : m \in match(p, "RBRACE")}

\* Parser::statements
statements(p) == statements_loop(p, <<>>)

\* Parser::block
block(p) ==
  LET List(e) ==
        {IF l.node = Null THEN SetAllowDeclarations(l, p.allowDeclarations)
         ELSE Ret(SetAllowDeclarations(l, p.allowDeclarations),
                  [kind |-> "BlockStatement", pos |-> begin(e), statements |-> l.node,
                   type |-> "LBRACE"])
           : l \in Invoke("statements", SetAllowDeclarations(e, TRUE), NoArgs)}
      Open(e) == IF ~e.hit THEN {Fail(e)} ELSE List(e)
  IN Open(expect(p, "LBRACE"))

\* Parser::statement
statement(p) ==
  LET Term(s) == {Ret(t, s.node) : t \in requireTerminator(s)}
      Local(s, kind) ==
        Invoke("localVariableDeclaration", s, [kind |-> kind, flags |-> {}])
      Other(s, kind) ==
        CASE kind = "FOR" -> Invoke("for_", s, NoArgs)
          [] kind = "WHILE" -> Invoke("while_", s, NoArgs)
          [] kind = "BREAK" -> Term(Ret(s, [kind |-> "BreakStatement", pos |-> begin(s)]))
          [] kind = "CONTINUE" ->
               Term(Ret(s, [kind |-> "ContinueStatement", pos |-> begin(s)]))
          [] kind = "DO" -> Invoke("do_", s, NoArgs)
          [] kind = "RETURN" -> Invoke("return_", s, NoArgs)
          [] kind = "ENUM" -> Invoke("enum_", s, NoArgs)
          [] kind = "SWITCH" -> Invoke("switch_", s, NoArgs)
          [] kind = "IF" -> Invoke("if_", s, NoArgs)
          [] OTHER ->
               UNION {UNION {IF e.node = Null THEN {e} ELSE Term(e)
                               : e \in Invoke("expressionStatement", u, NoArgs)}
                        : u \in undo(s)}
      Rest(s, kind) ==
        IF IsNewTypeToken(kind) THEN UNION {Local(u, "NEW") : u \in undo(s)}
        ELSE IF kind \in {"DECL", "STATIC", "NEW"} THEN Local(s, kind)
        ELSE Other(s, kind)
      Decide(s, is_decl) ==
        IF is_decl THEN UNION {Local(u, "NEW") : u \in undo(s)} ELSE Rest(s, "NAME")
      Sniff(q) ==
        UNION {IF m.hit THEN UNION {Decide(u, peekIs(m, "RBRACKET")) : u \in undo(m)}
               ELSE Decide(m, peekIs(m, "NAME"))
                 : m \in match(q, "LBRACKET")}
      Kind(q) == IF q.cur.kind = "NAME" THEN Sniff(q) ELSE Rest(q, q.cur.kind)
  IN IF peekIs(p, "LBRACE") THEN Invoke("block", p, NoArgs) ELSE Kind(next(p))

\* Parser::statementOrBlock
statementOrBlock(p) ==
  {SetAllowDeclarations(s, p.allowDeclarations)
     : s \in Invoke("statement", SetAllowDeclarations(p, FALSE), NoArgs)}

\* The do-while loop of Parser::enum_ and the code after it.
enum__loop(p, pos, name, entries) ==
  LET End(e) ==
        IF ~e.hit THEN {Fail(e)}
        ELSE {Ret(t, [kind |-> "EnumStatement", pos |-> pos, name |-> name,
                      entries |-> entries])
                : t \in requireTerminator(e)}
      Comma(q, proxy, value) ==
        UNION {IF c.hit
                 THEN enum__loop(c, pos, name, Append(entries, [proxy |-> proxy,
                                                               expr |-> value]))
                 ELSE End(expect(c, "RBRACE"))
                 : c \in match(q, "COMMA")}
      Value(n) ==
        UNION {IF ~a.hit THEN Comma(a, NameProxy(n.cur), Null)
               ELSE UNION {IF x.node = Null THEN {x}
                           ELSE Comma(x, NameProxy(n.cur), x.node)
                             : x \in Invoke("expression", a, NoArgs)}
                 : a \in match(n, "ASSIGN")}
      Entry(n) == IF ~n.hit THEN {Fail(n)} ELSE Value(n)
  IN IF peek(p) = "RBRACE" THEN End(expect(p, "RBRACE")) ELSE Entry(expect(p, "NAME"))

\* Parser::enum_
enum_(p) ==
  LET Open(e, name) ==
        IF ~e.hit THEN {Fail(e)} ELSE enum__loop(e, begin(p), name, <<>>)
  IN UNION {Open(expect(m, "LBRACE"), IF m.hit THEN m.cur.name ELSE Null)
              : m \in matchAny(p, <<"NAME", "LABEL">>)}

(***************************************************************************)
(* Top-level declarations and Parser::parse.                               *)
(***************************************************************************)
\* scanner_.eatRestOfLine(): the raw tokens left on the line of the current
\* token are skipped.
eatRestOfLine(p) ==
  LET rest == {i \in (p.pos + 1)..Len(toks) :
                 \A j \in (p.pos + 1)..i : toks[j].line = p.cur.line}
  IN [p EXCEPT !.pos = p.pos + Cardinality(rest), !.pushed = <<>>]

\* Parser::matchMethodBind: "(" ")" "=", or nothing consumed.
matchMethodBind(p) ==
  LET No(q) == {[u EXCEPT !.hit = FALSE] : u \in undo(q)}
      Close(r) ==
        IF ~r.hit THEN No(r)
        ELSE UNION {IF a.hit THEN {a} ELSE UNION {No(u) : u \in undo(a)}
                      : a \in match(r, "ASSIGN")}
  IN UNION {IF ~m.hit THEN {m} ELSE UNION {Close(r) : r \in match(m, "RPAREN")}
              : m \in match(p, "LPAREN")}

\* A FunctionOrAlias holding an alias, and one holding a function.
Alias(tok) == [kind |-> "Alias", alias |-> NameProxy(tok)]

FunctionNode(native, body, spec, params) ==
  [kind |-> "FunctionNode", token |-> IF native THEN "NATIVE" ELSE "NONE", body |-> body,
   signature |-> [returnType |-> spec, params |-> params]]

\* The while (!match(TOK_RBRACE)) loop of Parser::parseAccessor and the code
\* after it.  acc holds spec, name, getter, setter and dummy.
parseAccessor_loop(p, acc) ==
  LET Slot(n) ==
        IF n.cur.name = "get" THEN "getter"
        ELSE IF n.cur.name = "set" THEN "setter"
        ELSE "dummy"
      Bound(e, out) ==
        IF ~e.hit THEN {Fail(e)}
        ELSE parseAccessor_loop(requireNewlineOrSemi(e), [acc EXCEPT ![out] = Alias(e.cur)])
      Body(b, native, params, out) ==
        parseAccessor_loop(requireNewlineOrSemi(b),
                           [acc EXCEPT ![out] = FunctionNode(native, b.node, acc.spec, params)])
      Params(a, native, out) ==
        IF a.node = Null THEN {a}
        ELSE IF native THEN Body(Fail(a), native, a.node, out)
        ELSE UNION {Body(b, native, a.node, out) : b \in Invoke("methodBody", a, NoArgs)}
      Bind(n, native, out) ==
        UNION {IF b.hit THEN Bound(expect(b, "NAME"), out)
               ELSE UNION {Params(a, native, out) : a \in Invoke("arguments", b, NoArgs)}
                 : b \in matchMethodBind(n)}
      Redeclared(n, native, out) ==
        Bind(IF acc[out] # Null THEN reportError(n, begin(n), "AccessorRedeclared") ELSE n,
             native, out)
      Name(n, native) ==
        IF ~n.hit THEN {Fail(n)}
        ELSE Redeclared(IF Slot(n) = "dummy"
                          THEN reportError(n, begin(n), "InvalidAccessorName")
                          ELSE n,
                        native, Slot(n))
  IN UNION {IF m.hit
              THEN {Ret(m, [kind |-> "LayoutEntry", name |-> acc.name, spec |-> acc.spec,
                            getter |-> acc.getter, setter |-> acc.setter])}
              ELSE UNION {Name(expect(n, "NAME"), n.hit)
                            : n \in match(expect(m, "PUBLIC"), "NATIVE")}
              : m \in match(p, "RBRACE")}

\* Parser::parseAccessor
parseAccessor(p) ==
  LET Brace(b, spec, name) ==
        IF ~b.hit THEN {Fail(b)}
        ELSE parseAccessor_loop(b, [spec |-> spec, name |-> name, getter |-> Null,
                                    setter |-> Null, dummy |-> Null])
      Name(e, spec) ==
        IF ~e.hit THEN {Fail(e)} ELSE Brace(expect(e, "LBRACE"), spec, e.cur)
  IN UNION {Name(expect(s, "NAME"), s.spec)
              : s \in Invoke("parse_new_type_expr", p, [spec |-> TypeSpecifier, flags |-> {}])}

\* Parser::parseMethod
parseMethod(p) ==
  LET Entry(q, decl, native, body, params) ==
        Ret(q, [kind |-> "LayoutEntry", name |-> decl.name,
                method |-> FunctionNode(native, body, decl.spec, params)])
      Params(a, decl, native) ==
        IF a.node = Null THEN {a}
        ELSE IF native THEN {Entry(requireNewlineOrSemi(a), decl, native, Null, a.node)}
        ELSE {Entry(b, decl, native, b.node, a.node) : b \in Invoke("methodBody", a, NoArgs)}
      Bound(e, decl) ==
        IF ~e.hit THEN {Fail(e)}
        ELSE {Ret(requireNewlineOrSemi(e),
                  [kind |-> "LayoutEntry", name |-> decl.name, method |-> Alias(e.cur)])}
      Bind(d, decl, native) ==
        UNION {IF b.hit THEN Bound(expect(b, "NAME"), decl)
               ELSE UNION {Params(a, decl, native) : a \in Invoke("arguments", b, NoArgs)}
                 : b \in matchMethodBind(d)}
      Destructor(e, native) ==
        IF ~e.hit THEN {Fail(e)}
        ELSE Bind(e, [name |-> e.cur, spec |-> setBuiltinType(TypeSpecifier, "VOID")], native)
      Decl(t, native) ==
        IF t.hit THEN Destructor(expect(t, "NAME"), native)
        ELSE UNION {IF ~d.hit THEN {Fail(d)} ELSE Bind(d, d.decl, native)
                      : d \in Invoke("parse_decl", t,
                                     [decl |-> Declaration, flags |-> {"MaybeFunction"}])}
  IN UNION {UNION {Decl(t, n.hit) : t \in match(n, "TILDE")} : n \in match(p, "NATIVE")}

\* The while (!match(TOK_RBRACE)) loop of Parser::methodmap and the code
\* after it.  mm holds begin, name, nullable, extends and list.
methodmap_loop(p, mm) ==
  LET Entry(e) ==
        IF e.node = Null THEN {e}
        ELSE methodmap_loop(e, [mm EXCEPT !.list = Append(@, e.node)])
      Member(m) ==
        UNION {IF pub.hit THEN UNION {Entry(e) : e \in Invoke("parseMethod", pub, NoArgs)}
               ELSE UNION {IF prop.hit
                             THEN UNION {Entry(e)
                                           : e \in Invoke("parseAccessor", prop, NoArgs)}
                             ELSE {Fail(reportError(prop, begin(prop),
                                                    "ExpectedLayoutMember"))}
                             : prop \in match(pub, "PROPERTY")}
                 : pub \in match(m, "PUBLIC")}
  IN UNION {IF m.hit
              THEN {Ret(requireNewlineOrSemi(m),
                        [kind |-> "LayoutStatement", pos |-> mm.begin,
                         token |-> "METHODMAP", name |-> mm.name, extends |-> mm.extends,
                         list |-> mm.list, nullable |-> mm.nullable])}
              ELSE Member(m)
              : m \in match(p, "RBRACE")}

\* Parser::methodmap
methodmap(p) ==
  LET Brace(b, name, nullable, extends) ==
        IF ~b.hit THEN {Fail(b)}
        ELSE methodmap_loop(b, [begin |-> begin(p), name |-> name, nullable |-> nullable,
                                extends |-> extends, list |-> <<>>])
      Base(e, name, nullable) ==
        Brace(expect(e, "LBRACE"), name, nullable, IF e.hit THEN NameProxy(e.cur) ELSE Null)
      Extends(n, name) ==
        UNION {IF lt.hit THEN Base(expect(lt, "NAME"), name, n.hit)
               ELSE Brace(expect(lt, "LBRACE"), name, n.hit, Null)
                 : lt \in match(n, "LT")}
      Name(e) ==
        IF ~e.hit THEN {Fail(e)}
        ELSE UNION {Extends(n, e.cur) : n \in match(e, "NULLABLE")}
  IN Name(expect(p, "NAME"))

\* Parser::methodBody
methodBody(p) ==
  LET Exit(q) ==
        [q EXCEPT !.allowDeclarations = p.allowDeclarations,
                  !.encounteredReturn = p.encounteredReturn]
      Body(q, pos, list) ==
        Exit(Ret(requireNewline(q),
                 [kind |-> "MethodBody", pos |-> pos, statements |-> list,
                  returnedValue |-> q.encounteredReturn]))
      Enter(m) ==
        IF m.hit
          THEN {IF l.node = Null THEN Exit(l) ELSE Body(l, begin(m), l.node)
                  : l \in Invoke("statements", m, NoArgs)}
          ELSE {IF s.node = Null THEN Exit(s)
                ELSE Body(s, 0, [kind |-> "StatementList", list |-> <<s.node>>])
                  : s \in Invoke("statement", m, NoArgs)}
  IN UNION {Enter(m)
              : m \in match([p EXCEPT !.allowDeclarations = TRUE,
                                      !.encounteredReturn = FALSE],
                            "LBRACE")}

\* Parser::function
function(p, kind, decl, attrs) ==
  LET Statement(q, body, params) ==
        Ret(q, [kind |-> "FunctionStatement", name |-> decl.name, token |-> kind,
                body |-> body,
                signature |-> [returnType |-> decl.spec, params |-> params]])
      Params(a) ==
        IF a.node = Null THEN {a}
        ELSE IF kind \in {"FORWARD", "NATIVE"}
          THEN {Statement(t, Null, a.node) : t \in requireTerminator(a)}
        ELSE {IF b.node = Null THEN b ELSE Statement(requireNewline(b), b.node, a.node)
                : b \in Invoke("methodBody", a, NoArgs)}
  IN UNION {Params(a) : a \in Invoke("arguments", p, NoArgs)}

\* Parser::global
global(p, kind) ==
  LET Declared(d, attrs) ==
        IF ~d.hit THEN {Fail(d)}
        ELSE IF kind = "NEW" \/ d.decl.spec.hasPostDims \/ ~peekIs(d, "LPAREN")
          THEN Invoke("variable",
                      IF kind = "NEW" /\ isNewDecl(d.decl.spec)
                        THEN reportError(d, d.decl.name.loc, "NewStyleBadKeyword")
                        ELSE d,
                      [tok |-> "NEW", decl |-> d.decl, flags |-> attrs])
        ELSE Invoke("function", d, [kind |-> "FUNCTION", decl |-> d.decl, flags |-> attrs])
      Attrs(q, attrs) ==
        UNION {Declared(d, attrs)
                 : d \in Invoke("parse_decl", q,
                                [decl |-> Declaration,
                                 flags |-> {"MaybeFunction", "Variable"} \cup
                                           (IF kind = "NEW" THEN {"Old"} ELSE {})])}
      Prototype(d) ==
        IF ~d.hit THEN {Fail(d)}
        ELSE Invoke("function", d, [kind |-> kind, decl |-> d.decl, flags |-> {}])
  IN IF kind \in {"NATIVE", "FORWARD"}
       THEN UNION {Prototype(d)
                     : d \in Invoke("parse_decl", p,
                                    [decl |-> Declaration, flags |-> {"MaybeFunction"}])}
     ELSE IF kind = "STATIC"
       THEN UNION {Attrs(m, IF m.hit THEN {"Static", "Stock"} ELSE {"Static"})
                     : m \in match(p, "STOCK")}
     ELSE Attrs(p, IF kind = "PUBLIC" THEN {"Public"}
                   ELSE IF kind = "STOCK" THEN {"Stock"} ELSE {})

\* A step of Parser::struct_: the parser state after it, the locals loc, kind,
\* name and list, and whether the loop goes on.
Step(q, st, again) == [ps |-> q, st |-> st, again |-> again]

\* One pass of the while (!match(TOK_RBRACE)) loop of Parser::struct_: the
\* condition and, when it holds, the body; when it does not, the code after
\* the loop.
struct__iteration(p, st) ==
  LET Field(d) ==
        IF ~d.hit THEN Step(Fail(d), st, FALSE)
        ELSE Step(requireNewlineOrSemi(d),
                  [st EXCEPT !.list = Append(@, [kind |-> "LayoutEntry",
                                                 name |-> d.decl.name,
                                                 spec |-> d.decl.spec])],
                  TRUE)
      Flags == IF st.kind = "UNION" THEN {"Field", "MaybeNamed"} ELSE {"Field"}
  IN UNION {IF m.hit
              THEN {Step(Ret(requireNewlineOrSemi(m),
                             [kind |-> "LayoutStatement", pos |-> st.loc,
                              token |-> st.kind, name |-> st.name, extends |-> Null,
                              list |-> st.list, nullable |-> FALSE]),
                         st, FALSE)}
              ELSE {Field(d)
                      : d \in Invoke("parse_new_decl",
                                     IF st.kind = "STRUCT" THEN expect(m, "PUBLIC")
                                     ELSE m,
                                     [decl |-> Declaration, flags |-> Flags])}
              : m \in match(p, "RBRACE")}

\* Parser::struct_ up to its loop.
struct__enter(p, kind) ==
  LET None == [loc |-> begin(p), kind |-> kind, name |-> Null, list |-> <<>>]
      Brace(b, name) ==
        IF ~b.hit THEN Step(Fail(b), None, FALSE)
        ELSE Step(b, [None EXCEPT !.name = name], TRUE)
      Name(e) ==
        IF ~e.hit THEN Step(Fail(e), None, FALSE) ELSE Brace(expect(e, "LBRACE"), e.cur)
  IN {Name(expect(p, "NAME"))}

\* The while (!match(TOK_RBRACE)) loop of Parser::struct_ and the code after
\* it.  st holds loc, kind, name and list.
struct__loop(p, st) ==
  UNION {IF r.again THEN struct__loop(r.ps, r.st) ELSE {r.ps}
           : r \in struct__iteration(p, st)}

\* Parser::struct_
struct_(p, kind) ==
  UNION {IF r.again THEN struct__loop(r.ps, r.st) ELSE {r.ps}
           : r \in struct__enter(p, kind)}

\* Parser::typedef_
typedef_(p) ==
  LET Name(e) ==
        IF ~e.hit THEN {Fail(e)}
        ELSE {Ret(requireNewlineOrSemi(s),
                  [kind |-> "TypedefStatement", pos |-> begin(p), name |-> e.cur.name,
                   spec |-> s.spec])
                : s \in Invoke("parse_new_type_expr", expect(e, "ASSIGN"),
                               [spec |-> TypeSpecifier, flags |-> {}])}
  IN Name(expect(p, "NAME"))

\* parse() has not returned.
Running == [kind |-> "running"]

ParseTree(list) == [kind |-> "ParseTree", statements |-> list]

\* Mutant of the loop of Parser::parse: after ExpectedGlobal the loop goes on
\* with the next token.
parse_iteration_SkipsUnexpected(p) ==
  LET Return(q, tree) == [q EXCEPT !.tree = tree]
      After(s) ==
        IF s.node = Null
          THEN IF s.cur.kind = "EOF" THEN Return(s, ParseTree(s.list)) ELSE s
          ELSE [s EXCEPT !.list = Append(@, s.node)]
      Global(q, kind) == {After(g) : g \in Invoke("global", q, [kind |-> kind])}
      Kind(q) ==
        CASE q.cur.kind = "ERROR" -> {Return(q, Null)}
          [] q.cur.kind = "EOF" -> {After(Fail(q))}
          [] q.cur.kind \in {"NAME", "CHAR", "INT", "VOID", "OBJECT", "FLOAT", "LABEL"} ->
               UNION {Global(u, q.cur.kind) : u \in undo(q)}
          [] q.cur.kind \in {"NEW", "STATIC", "PUBLIC", "STOCK", "NATIVE", "FORWARD"} ->
               Global(q, q.cur.kind)
          [] q.cur.kind = "METHODMAP" -> {After(s) : s \in Invoke("methodmap", q, NoArgs)}
          [] q.cur.kind = "ENUM" -> {After(s) : s \in Invoke("enum_", q, NoArgs)}
          [] q.cur.kind \in {"STRUCT", "UNION"} ->
               {After(s) : s \in Invoke("struct_", q, [kind |-> q.cur.kind])}
          [] q.cur.kind = "TYPEDEF" -> {After(s) : s \in Invoke("typedef_", q, NoArgs)}
          [] q.cur.kind = "FUNCTAG" ->
               {After(Fail(eatRestOfLine(reportError(q, begin(q),
                                                     "FunctagsNotSupported"))))}
          [] OTHER ->
               {After(Fail(reportError(q, begin(q), "ExpectedGlobal")))}
  IN Kind(next(p))

\* One iteration of the for (;;) loop of Parser::parse, with the return
\* after the loop when the iteration leaves it.  The list is in p.list and
\* the value parse() returns in p.tree.
parse_iteration(p) ==
  LET Return(q, tree) == [q EXCEPT !.tree = tree]
      After(s) ==
        IF s.node = Null
          THEN IF s.cur.kind = "EOF" THEN Return(s, ParseTree(s.list)) ELSE s
          ELSE [s EXCEPT !.list = Append(@, s.node)]
      Global(q, kind) == {After(g) : g \in Invoke("global", q, [kind |-> kind])}
      Kind(q) ==
        CASE q.cur.kind = "ERROR" -> {Return(q, Null)}
          [] q.cur.kind = "EOF" -> {After(Fail(q))}
          [] q.cur.kind \in {"NAME", "CHAR", "INT", "VOID", "OBJECT", "FLOAT", "LABEL"} ->
               UNION {Global(u, q.cur.kind) : u \in undo(q)}
          [] q.cur.kind \in {"NEW", "STATIC", "PUBLIC", "STOCK", "NATIVE", "FORWARD"} ->
               Global(q, q.cur.kind)
          [] q.cur.kind = "METHODMAP" -> {After(s) : s \in Invoke("methodmap", q, NoArgs)}
          [] q.cur.kind = "ENUM" -> {After(s) : s \in Invoke("enum_", q, NoArgs)}
          [] q.cur.kind \in {"STRUCT", "UNION"} ->
               {After(s) : s \in Invoke("struct_", q, [kind |-> q.cur.kind])}
          [] q.cur.kind = "TYPEDEF" -> {After(s) : s \in Invoke("typedef_", q, NoArgs)}
          [] q.cur.kind = "FUNCTAG" ->
               {After(Fail(eatRestOfLine(reportError(q, begin(q),
                                                     "FunctagsNotSupported"))))}
          [] OTHER ->
               {Return(reportError(q, begin(q), "ExpectedGlobal"), ParseTree(q.list))}
  IN Kind(next(p))

\* A call of a production by name; a holds the arguments.
Invoke(fn, p, a) ==
  CASE fn = "expression" -> expression(p)
    [] fn = "primitive" -> primitive(p)
    [] fn = "parseCompoundLiteral" -> parseCompoundLiteral(p)
    [] fn = "unary" -> unary(p)
    [] fn = "multiplication" -> multiplication(p)
    [] fn = "addition" -> addition(p)
    [] fn = "shift" -> shift(p)
    [] fn = "bitxor" -> bitxor(p)
    [] fn = "relational" -> relational(p)
    [] fn = "equals" -> equals(p)
    [] fn = "and_" -> and_(p)
    [] fn = "parse_function_type" -> parse_function_type(p, a.spec, a.flags)
    [] fn = "parse_new_type_expr" -> parse_new_type_expr(p, a.spec, a.flags)
    [] fn = "parse_old_array_dims" -> parse_old_array_dims(p, a.decl, a.flags)
    [] fn = "parse_new_decl" -> parse_new_decl(p, a.decl, a.flags)
    [] fn = "parse_old_decl" -> parse_old_decl(p, a.decl, a.flags)
    [] fn = "reparse_decl" -> reparse_decl(p, a.decl, a.flags)
    [] fn = "parse_decl" -> parse_decl(p, a.decl, a.flags)
    [] fn = "arguments" -> arguments(p)
    [] fn = "assignment" -> assignment(p)
    [] fn = "while_" -> while_(p)
    [] fn = "do_" -> do_(p)
    [] fn = "if_" -> if_(p)
    [] fn = "switch_" -> switch_(p)
    [] fn = "for_" -> for_(p)
    [] fn = "variable" -> variable(p, a.tok, a.decl, a.flags)
    [] fn = "localVariableDeclaration" -> localVariableDeclaration(p, a.kind, a.flags)
    [] fn = "return_" -> return_(p)
    [] fn = "expressionStatement" -> expressionStatement(p)
    [] fn = "statements" -> statements(p)
    [] fn = "block" -> block(p)
    [] fn = "statement" -> statement(p)
    [] fn = "statementOrBlock" -> statementOrBlock(p)
    [] fn = "enum_" -> enum_(p)
    [] fn = "parseAccessor" -> parseAccessor(p)
    [] fn = "parseMethod" -> parseMethod(p)
    [] fn = "methodmap" -> methodmap(p)
    [] fn = "methodBody" -> methodBody(p)
    [] fn = "function" -> function(p, a.kind, a.decl, a.flags)
    [] fn = "global" -> global(p, a.kind)
    [] fn = "struct_" -> struct_(p, a.kind)
    [] fn = "typedef_" -> typedef_(p)
    [] fn = "parse_iteration" -> parse_iteration(p)

(***************************************************************************)
(* Token streams handed to the expression productions.                     *)
(***************************************************************************)
Tok(kind, name, line) == [kind |-> kind, name |-> name, line |-> line]

N(name) == Tok("NAME", name, 1)

Op(kind) == Tok(kind, "", 1)

AssignTokens ==
  {"ASSIGN", "ASSIGN_ADD", "ASSIGN_SUB", "ASSIGN_MUL", "ASSIGN_DIV", "ASSIGN_MOD",
   "ASSIGN_BITAND", "ASSIGN_BITOR", "ASSIGN_BITXOR", "ASSIGN_SHR", "ASSIGN_USHR",
   "ASSIGN_SHL"}

RelationalTokens == {"LT", "LE", "GT", "GE"}

BinaryOpTokens ==
  AssignTokens \cup RelationalTokens \cup
  {"OR", "AND", "EQUALS", "NOTEQUALS", "BITOR", "BITXOR", "BITAND", "SHL", "SHR",
   "USHR", "PLUS", "MINUS", "STAR", "SLASH", "PERCENT"}

\* a OP1 b OP2 c
OpPairStreams ==
  {<<N("a"), Op(o1), N("b"), Op(o2), N("c")>> : o1 \in BinaryOpTokens, o2 \in BinaryOpTokens}

\* The longest chain of relational operators handed to the parser.
MaxRelational == 2

OperandNames == <<"a", "b", "c", "d", "e", "f">>

\* a OP1 b ... OPk z, the operators being ops[1] .. ops[k]
Chain(ops) ==
  [i \in 1..(2 * Len(ops) + 1) |->
     IF i % 2 = 1 THEN N(OperandNames[(i + 1) \div 2]) ELSE Op(ops[i \div 2])]

RelChainStreams ==
  UNION {{Chain(ops) : ops \in [1..k -> RelationalTokens]} : k \in 1..MaxRelational}

TernaryStreams ==
  {<<N("a"), Op("QMARK"), N("b"), Op("COLON"), N("c")>>,
   <<N("a"), Op("QMARK"), N("b"), Op("COLON"), N("c"), Op("QMARK"), N("d"),
     Op("COLON"), N("e")>>,
   <<N("a"), Op("ASSIGN"), N("b"), Op("QMARK"), N("c"), Op("COLON"), N("d")>>,
   <<N("a"), Op("QMARK"), N("b"), Op("COLON"), N("c"), Op("ASSIGN"), N("d")>>,
   <<N("a"), Op("OR"), N("b"), Op("QMARK"), N("c"), Op("COLON"), N("d")>>,
   <<N("a"), Op("QMARK"), N("b"), Op("COLON"), N("c"), Op("OR"), N("d")>>,
   <<N("a"), Op("QMARK"), N("b"), N("c")>>,
   <<N("a"), Op("QMARK"), Op("COLON"), N("c")>>,
   <<N("a"), Op("QMARK"), N("b"), Op("COLON"), N("T"), Op("COLON"), N("c")>>,
   <<N("a"), Op("QMARK"), N("b"), Op("COLON"), Op("RPAREN")>>}

OperandStreams ==
  {<<Op("MINUS"), N("a")>>, <<Op("NOT"), N("a")>>, <<Op("TILDE"), N("a")>>,
   <<Op("INCREMENT"), N("a")>>, <<Op("DECREMENT"), N("a")>>,
   <<N("a"), Op("INCREMENT")>>, <<N("a"), Op("DECREMENT")>>,
   <<Op("RPAREN"), Op("INCREMENT")>>, <<Op("MINUS"), Op("RPAREN")>>,
   <<Op("RPAREN"), Op("STAR"), N("a")>>, <<Op("RPAREN"), Op("PLUS"), N("a")>>,
   <<N("a"), Op("STAR"), Op("RPAREN")>>,
   <<Op("SIZEOF"), Op("LPAREN"), N("a"), Op("RPAREN")>>,
   <<Op("SIZEOF"), Op("LPAREN"), N("a")>>, <<Op("SIZEOF"), N("a")>>,
   <<N("t"), Op("COLON"), N("a")>>,
   <<N("f"), Op("LPAREN"), Op("RPAREN")>>,
   <<N("f"), Op("LPAREN"), N("a"), Op("RPAREN")>>,
   <<N("f"), Op("LPAREN"), N("a"), Op("COMMA"), N("b"), Op("RPAREN")>>,
   <<N("f"), Op("LPAREN"), N("a"), Op("COMMA"), Op("RPAREN")>>,
   <<N("f"), Op("LPAREN"), N("a"), N("b")>>,
   <<N("a"), Op("LBRACKET"), N("b"), Op("RBRACKET")>>,
   <<N("a"), Op("LBRACKET"), N("b"), Op("RBRACKET"), Op("LBRACKET"), N("c"),
     Op("RBRACKET")>>,
   <<N("a"), Op("LBRACKET"), N("b")>>, <<N("a"), Op("LBRACKET"), Op("RBRACKET")>>,
   <<Op("LPAREN"), N("a"), Op("RPAREN")>>, <<Op("LPAREN"), N("a")>>,
   <<Op("LPAREN"), N("a"), Op("PLUS"), N("b"), Op("RPAREN"), Op("STAR"), N("c")>>,
   <<Op("LBRACE"), Op("RBRACE")>>,
   <<Op("LBRACE"), N("a"), Op("RBRACE")>>,
   <<Op("LBRACE"), N("a"), Op("COMMA"), N("b"), Op("RBRACE")>>,
   <<Op("LBRACE"), N("a"), Op("COMMA"), N("b"), Op("COMMA"), Op("RBRACE")>>,
   <<Op("LBRACE"), N("a"), N("b")>>,
   <<Op("LBRACE"), N("x"), Op("ASSIGN"), N("a"), Op("RBRACE")>>,
   <<Op("LBRACE"), N("x"), Op("ASSIGN"), N("a"), Op("COMMA"), N("y"), Op("ASSIGN"),
     N("b"), Op("RBRACE")>>,
   <<Op("LBRACE"), N("x"), Op("ASSIGN"), N("a"), Op("COMMA"), N("y")>>,
   <<Tok("INTEGER_LITERAL", "1", 1)>>, <<Tok("HEX_LITERAL", "0x1", 1)>>,
   <<Tok("FLOAT_LITERAL", "1.0", 1)>>, <<Tok("STRING_LITERAL", "s", 1)>>,
   <<Tok("CHAR_LITERAL", "c", 1)>>, <<Op("TRUE")>>, <<Op("FALSE")>>, <<Op("THIS")>>,
   <<Op("INT")>>, <<Op("ERROR")>>, <<Op("SEMICOLON")>>, <<>>,
   <<N("a"), Op("PLUS")>>, <<N("a"), Op("LT")>>, <<N("a"), Op("ASSIGN")>>}

ExprStreams == OpPairStreams \cup RelChainStreams \cup TernaryStreams \cup OperandStreams

ExprEntries ==
  {[toks |-> s, fn |-> "expression", tags |-> t] : s \in ExprStreams, t \in BOOLEAN}
    \cup {[toks |-> s, fn |-> "relational", tags |-> FALSE] : s \in RelChainStreams}

InitExpr ==
  /\ entry \in ExprEntries
  /\ toks = entry.toks
  /\ ps = ParserInit(entry.tags, FALSE)
  /\ expr = Null
  /\ mode = [fn |-> "none"]
  /\ em = EmitterInit
  /\ pc = "start"

\* Parser::expression() (or the production named by the entry) on the token
\* stream.
ParseExpression ==
  /\ pc = "start"
  /\ entry.fn \in {"expression", "relational"}
  /\ ps' \in Invoke(entry.fn, ps, NoArgs)
  /\ pc' = "done"
  /\ UNCHANGED <<expr, mode, em, toks, entry>>

NextExpr == ParseExpression

SpecExpr == InitExpr /\ [][NextExpr]_vars

(***************************************************************************)
(* Token streams and flags handed to Parser::parse_decl.                   *)
(***************************************************************************)
\* The flags the parser passes to parse_decl: arguments(), parseMethod() and
\* global() for natives and forwards, localVariableDeclaration() (inline in
\* a for statement or not), and global() with and without `new`.
DeclFlagSets ==
  {{"Argument"}, {"MaybeFunction"}, {"Variable"}, {"Variable", "Inline"},
   {"MaybeFunction", "Variable"}, {"MaybeFunction", "Variable", "Old"}}

DeclKinds ==
  {"NAME", "CONST", "AMPERSAND", "LBRACE", "ELLIPSES", "LBRACKET", "RBRACKET", "INT",
   "COLON"}

\* The longest stream of arbitrary tokens handed to parse_decl.
MaxLookahead == 3

\* The i-th token of a stream, of the given kind.
D(kind, i) == IF kind = "NAME" THEN N(OperandNames[i]) ELSE Op(kind)

LookaheadStreams ==
  UNION {{[i \in 1..n |-> D(f[i], i)] : f \in [1..n -> DeclKinds]} : n \in 0..MaxLookahead}

\* The largest number of array dimensions of a declaration.
MaxDims == 2

Five == Tok("INTEGER_LITERAL", "5", 1)

Unsized == <<Op("LBRACKET"), Op("RBRACKET")>>

Sized == <<Op("LBRACKET"), Five, Op("RBRACKET")>>

RECURSIVE Flatten(_)
Flatten(ss) == IF ss = <<>> THEN <<>> ELSE Head(ss) \o Flatten(Tail(ss))

\* One to MaxDims dimensions, each with a size or without.
DimLists ==
  UNION {{Flatten(f) : f \in [1..k -> {Unsized, Sized}]} : k \in 1..MaxDims}

\* x[] y;  x[];  x[] &y;  int[] y;  int y[];  x y[];  x[] = ...;  x[] y[]
DimStreams ==
  UNION {{<<N("x")>> \o d \o <<N("y")>>, <<N("x")>> \o d,
          <<N("x")>> \o d \o <<Op("AMPERSAND"), N("y")>>,
          <<Op("INT")>> \o d \o <<N("y")>>, <<Op("INT"), N("y")>> \o d,
          <<N("x"), N("y")>> \o d, <<N("x")>> \o d \o <<Op("ASSIGN"), Five>>,
          <<N("x")>> \o d \o <<N("y")>> \o d,
          <<N("x"), Op("COLON"), N("y")>> \o d,
          <<Op("CONST"), N("x")>> \o d \o <<N("y")>>}
           : d \in DimLists}

FunctionTypeStreams ==
  {<<Op("FUNCTION"), Op("INT"), Op("LPAREN"), Op("RPAREN"), N("f")>>,
   <<Op("LPAREN"), Op("FUNCTION"), Op("INT"), Op("LPAREN"), Op("RPAREN"), Op("RPAREN"),
     N("f")>>,
   <<Op("FUNCTION"), Op("VOID"), Op("LPAREN"), Op("INT"), N("a"), Op("COMMA"), N("b"),
     Op("RPAREN"), N("f")>>,
   <<Op("FUNCTION"), Op("VOID"), Op("LPAREN"), N("x"), N("a"), Op("COMMA"),
     Op("AMPERSAND"), N("b"), Op("COMMA"), Op("ELLIPSES"), Op("RPAREN"), N("f")>>,
   <<Op("FUNCTION"), Op("VOID"), Op("LPAREN"), N("x"), Op("LBRACKET"), Op("RBRACKET"),
     N("a"), Op("COMMA"), N("b"), Op("LBRACKET"), Op("RBRACKET"), Op("RPAREN"), N("f")>>,
   <<Op("FUNCTION"), Op("VOID"), Op("LPAREN"), N("t"), Op("COLON"), N("a"),
     Op("ASSIGN"), Five, Op("COMMA"), Op("ELLIPSES"), Op("COMMA"), Op("ELLIPSES"),
     Op("RPAREN"), N("f")>>,
   <<Op("FUNCTION"), Op("VOID"), Op("LPAREN"), Op("INT"), N("a")>>,
   <<Op("FUNCTION"), Op("VOID"), N("f")>>,
   <<Op("LPAREN"), Op("INT"), Op("RPAREN"), N("f")>>,
   <<Op("LPAREN"), N("x"), N("f")>>,
   <<Op("INT"), Op("LBRACKET"), Five, Op("RBRACKET"), N("f")>>,
   <<Op("INT"), Op("AMPERSAND"), N("f")>>,
   <<Op("INT"), Op("LBRACKET"), Op("RBRACKET"), Op("AMPERSAND"), N("f")>>,
   <<Op("CONST"), Op("CONST"), Op("INT"), N("f")>>,
   <<N("Float"), N("f")>>, <<N("String"), N("f")>>, <<N("_"), N("f")>>,
   <<Op("FLOAT"), N("f")>>, <<Op("ERROR")>>}

DeclStreams == LookaheadStreams \cup DimStreams \cup FunctionTypeStreams

DeclEntries ==
  {[toks |-> s, fn |-> "parse_decl", tags |-> t, flags |-> f]
     : s \in DeclStreams, t \in BOOLEAN, f \in DeclFlagSets}

InitDecl ==
  /\ entry \in DeclEntries
  /\ toks = entry.toks
  /\ ps = ParserInit(entry.tags, FALSE)
  /\ expr = Null
  /\ mode = [fn |-> "none"]
  /\ em = EmitterInit
  /\ pc = "start"

\* Parser::parse_decl(&decl, flags) on the token stream, decl being a fresh
\* Declaration.
ParseDecl ==
  /\ pc = "start"
  /\ entry.fn = "parse_decl"
  /\ ps' \in Invoke("parse_decl", ps, [decl |-> Declaration, flags |-> entry.flags])
  /\ pc' = "done"
  /\ UNCHANGED <<expr, mode, em, toks, entry>>

NextDecl == ParseDecl

SpecDecl == InitDecl /\ [][NextDecl]_vars

(***************************************************************************)
(* Token streams handed to Parser::statement.                              *)
(***************************************************************************)
\* The tokens of a stream, all on line 1, from their kinds; a kind that is
\* no token kind is the name of a NAME token, and a number an integer
\* literal.
TokenKinds ==
  BinaryOpTokens \cup
  {"LPAREN", "RPAREN", "LBRACE", "RBRACE", "LBRACKET", "RBRACKET", "SEMICOLON", "COLON",
   "COMMA", "QMARK", "ELLIPSES", "AMPERSAND", "TILDE", "NOT", "INCREMENT", "DECREMENT",
   "IF", "ELSE", "WHILE", "DO", "FOR", "SWITCH", "CASE", "DEFAULT", "BREAK", "CONTINUE",
   "RETURN", "ENUM", "NEW", "DECL", "STATIC", "CONST", "INT", "VOID", "FLOAT", "CHAR",
   "BOOL", "OBJECT", "FUNCTION", "PUBLIC", "STOCK", "NATIVE", "FORWARD", "METHODMAP",
   "PROPERTY", "NULLABLE", "STRUCT", "UNION", "TYPEDEF", "FUNCTAG", "ERROR", "TRUE",
   "FALSE", "THIS", "SIZEOF"}

Word(w, line) ==
  IF w \in TokenKinds THEN Tok(w, "", line)
  ELSE IF w \in {"0", "1", "2", "3", "4", "5", "6", "7", "8", "9"}
    THEN Tok("INTEGER_LITERAL", w, line)
  ELSE Tok("NAME", w, line)

\* The words on one line.
Line(words) == [i \in 1..Len(words) |-> Word(words[i], 1)]

\* lines[k] on line k.
Lines(lines) ==
  Flatten([k \in 1..Len(lines) |-> [i \in 1..Len(lines[k]) |-> Word(lines[k][i], k)]])

\* The tokens of words, the first one on the given line; the word NL is no
\* token, it ends the line.
Breaks(words, i) == Cardinality({j \in 1..i : words[j] = "NL"})

WordsFrom(words, line) ==
  LET at == SelectSeq([i \in 1..Len(words) |-> i], LAMBDA i : words[i] # "NL")
  IN [j \in 1..Len(at) |-> Word(words[at[j]], line + Breaks(words, at[j]))]

\* if (x < y < z) {}
IfChained == <<"IF", "LPAREN", "x", "LT", "y", "LT", "z", "RPAREN", "LBRACE", "RBRACE">>

\* switch (k) { case 1: a(); case 2: b(); default: c(); case 3: d(); }
SwitchOneLine ==
  <<"SWITCH", "LPAREN", "k", "RPAREN", "LBRACE",
    "CASE", "1", "COLON", "a", "LPAREN", "RPAREN", "SEMICOLON",
    "CASE", "2", "COLON", "b", "LPAREN", "RPAREN", "SEMICOLON",
    "DEFAULT", "COLON", "c", "LPAREN", "RPAREN", "SEMICOLON",
    "CASE", "3", "COLON", "d", "LPAREN", "RPAREN", "SEMICOLON", "RBRACE">>

\* if (x OP1 y OP2 z) {}, the operators being relational.
IfChainedStreams ==
  {Line(<<"IF", "LPAREN", "x", o1, "y", o2, "z", "RPAREN", "LBRACE", "RBRACE">>)
     : o1 \in RelationalTokens, o2 \in RelationalTokens}

\* The largest number of cases of a switch statement.
MaxCases == 4

Digits == <<"1", "2", "3", "4", "5", "6", "7", "8", "9">>

\* The number of the entries of kinds[1..k] that are no default.
CaseNumber(kinds, k) == Cardinality({j \in 1..k : kinds[j] # "default"})

\* The k-th entry of a switch: "case" is `case n: f();`, "default" is
\* `default: f();` and "double" is `case n: f(); f();`, each followed by a
\* line break unless the switch is written on one line.
CaseWords(kinds, k, oneLine) ==
  (IF kinds[k] = "default" THEN <<"DEFAULT">>
   ELSE <<"CASE", Digits[CaseNumber(kinds, k)]>>)
    \o <<"COLON", OperandNames[k], "LPAREN", "RPAREN", "SEMICOLON">>
    \o (IF kinds[k] = "double" THEN <<OperandNames[k], "LPAREN", "RPAREN", "SEMICOLON">>
        ELSE <<>>)
    \o (IF oneLine THEN <<>> ELSE <<"NL">>)

SwitchWords(kinds, oneLine) ==
  <<"SWITCH", "LPAREN", "k", "RPAREN", "LBRACE">> \o (IF oneLine THEN <<>> ELSE <<"NL">>)
    \o Flatten([k \in 1..Len(kinds) |-> CaseWords(kinds, k, oneLine)])
    \o <<"RBRACE">>

SwitchStreams ==
  {WordsFrom(SwitchWords(kinds, oneLine), 1)
     : kinds \in UNION {[1..n -> {"case", "default", "double"}] : n \in 0..MaxCases},
       oneLine \in BOOLEAN}

OtherStatementStreams ==
  {WordsFrom(w, 1) : w \in
     {<<"WHILE", "LPAREN", "x", "RPAREN", "LBRACE", "RBRACE">>,
      <<"WHILE", "LPAREN", "x", "RPAREN", "f", "LPAREN", "RPAREN", "SEMICOLON">>,
      <<"WHILE", "LPAREN", "x", "RPAREN", "f", "LPAREN", "RPAREN", "NL", "y">>,
      <<"WHILE", "LPAREN", "x", "RPAREN", "f", "LPAREN", "RPAREN", "y">>,
      <<"WHILE", "LPAREN", "x", "RPAREN", "LBRACE", "RBRACE", "y">>,
      <<"WHILE", "LPAREN", "x", "LBRACE", "RBRACE">>,
      <<"WHILE", "x", "RPAREN", "LBRACE", "RBRACE">>,
      <<"WHILE", "LPAREN", "RPAREN", "LBRACE", "RBRACE">>,
      <<"WHILE", "LPAREN", "x", "RPAREN", "INT", "y", "SEMICOLON">>,
      <<"DO", "LBRACE", "RBRACE", "WHILE", "LPAREN", "x", "RPAREN", "SEMICOLON">>,
      <<"DO", "LBRACE", "LBRACE", "RBRACE", "WHILE", "LPAREN", "x", "RPAREN", "SEMICOLON">>,
      <<"DO", "x", "LBRACE", "RBRACE", "WHILE", "LPAREN", "x", "RPAREN">>,
      <<"DO", "x", "LBRACE", "RBRACE", "WHILE", "LPAREN", "x">>,
      <<"DO", "x", "LBRACE", "RBRACE", "x">>,
      <<"FOR", "LPAREN", "SEMICOLON", "SEMICOLON", "RPAREN", "LBRACE", "RBRACE">>,
      <<"FOR", "LPAREN", "NEW", "i", "ASSIGN", "0", "SEMICOLON", "i", "LT", "5",
        "SEMICOLON", "i", "INCREMENT", "RPAREN", "LBRACE", "RBRACE">>,
      <<"FOR", "LPAREN", "INT", "i", "ASSIGN", "0", "SEMICOLON", "i", "LT", "5",
        "SEMICOLON", "i", "INCREMENT", "RPAREN", "f", "LPAREN", "RPAREN", "SEMICOLON">>,
      <<"FOR", "LPAREN", "i", "ASSIGN", "0", "SEMICOLON", "SEMICOLON", "RPAREN",
        "LBRACE", "RBRACE">>,
      <<"FOR", "LPAREN", "i", "RPAREN">>, <<"FOR", "i">>,
      <<"FOR", "LPAREN", "SEMICOLON", "i", "RPAREN">>,
      <<"FOR", "LPAREN", "SEMICOLON", "SEMICOLON", "i", "SEMICOLON">>,
      <<"RETURN", "SEMICOLON">>, <<"RETURN">>, <<"RETURN", "x", "SEMICOLON">>,
      <<"RETURN", "x">>, <<"RETURN", "NL", "x">>, <<"RETURN", "x", "y">>,
      <<"RETURN", "PLUS">>,
      <<"BREAK", "SEMICOLON">>, <<"BREAK">>, <<"BREAK", "x">>, <<"BREAK", "NL", "x">>,
      <<"CONTINUE", "SEMICOLON">>, <<"CONTINUE", "RBRACE">>,
      <<"ENUM", "e", "LBRACE", "a", "COMMA", "b", "ASSIGN", "1", "RBRACE", "SEMICOLON">>,
      <<"ENUM", "LBRACE", "RBRACE">>, <<"ENUM", "e", "LBRACE", "a", "COMMA", "RBRACE">>,
      <<"ENUM", "e", "LBRACE", "1", "RBRACE">>, <<"ENUM", "e", "a">>,
      <<"ENUM", "e", "LBRACE", "a", "ASSIGN", "RBRACE">>,
      <<"ENUM", "e", "LBRACE", "a", "b">>,
      <<"LBRACE", "RBRACE">>,
      <<"LBRACE", "x", "ASSIGN", "1", "SEMICOLON", "INT", "y", "SEMICOLON", "RBRACE">>,
      <<"LBRACE", "x", "ASSIGN", "1", "NL", "y", "ASSIGN", "2", "NL", "RBRACE">>,
      <<"LBRACE", "x", "ASSIGN", "1">>, <<"LBRACE", "RPAREN", "RBRACE">>,
      <<"x", "ASSIGN", "1", "SEMICOLON">>, <<"x", "ASSIGN", "1">>,
      <<"x", "ASSIGN", "1", "y">>, <<"x", "ASSIGN", "1", "NL", "y">>,
      <<"x", "LBRACKET", "0", "RBRACKET", "ASSIGN", "1", "SEMICOLON">>,
      <<"x", "LPAREN", "RPAREN", "SEMICOLON">>, <<"x", "SEMICOLON">>,
      <<"1", "SEMICOLON">>, <<"SEMICOLON">>, <<"RPAREN">>, <<>>,
      <<"x", "y", "SEMICOLON">>, <<"x", "y", "ASSIGN", "1", "SEMICOLON">>,
      <<"x", "LBRACKET", "RBRACKET", "y", "SEMICOLON">>,
      <<"x", "LBRACKET", "RBRACKET", "SEMICOLON">>,
      <<"x", "COLON", "y", "SEMICOLON">>,
      <<"INT", "x", "SEMICOLON">>, <<"INT", "x", "COMMA", "y", "SEMICOLON">>,
      <<"INT", "x", "LBRACKET", "RBRACKET", "COMMA", "y", "SEMICOLON">>,
      <<"INT", "LBRACKET", "RBRACKET", "x", "COMMA", "y", "SEMICOLON">>,
      <<"INT", "LBRACKET", "RBRACKET", "x", "COMMA", "y", "LBRACKET", "RBRACKET",
        "SEMICOLON">>,
      <<"INT", "x", "ASSIGN", "1", "COMMA", "y", "ASSIGN", "2", "SEMICOLON">>,
      <<"INT", "x", "COMMA", "SEMICOLON">>, <<"INT", "x">>, <<"INT", "x", "y">>,
      <<"INT", "SEMICOLON">>,
      <<"NEW", "x", "SEMICOLON">>, <<"NEW", "x", "COMMA", "y", "SEMICOLON">>,
      <<"NEW", "x", "LBRACKET", "5", "RBRACKET", "COMMA", "y", "SEMICOLON">>,
      <<"NEW", "t", "COLON", "x", "COMMA", "y", "SEMICOLON">>,
      <<"NEW", "INT", "x", "SEMICOLON">>,
      <<"DECL", "x", "SEMICOLON">>, <<"STATIC", "x", "ASSIGN", "1", "SEMICOLON">>,
      <<"IF", "LPAREN", "x", "RPAREN", "LBRACE", "RBRACE">>,
      <<"IF", "LPAREN", "x", "RPAREN", "LBRACE", "RBRACE", "ELSE", "LBRACE", "RBRACE">>,
      <<"IF", "LPAREN", "x", "RPAREN", "LBRACE", "RBRACE", "ELSE", "IF", "LPAREN", "y",
        "RPAREN", "LBRACE", "RBRACE", "ELSE", "LBRACE", "RBRACE">>,
      <<"IF", "LPAREN", "x", "RPAREN", "LBRACE", "RBRACE", "ELSE", "IF", "LPAREN", "y",
        "RPAREN", "LBRACE", "RBRACE", "ELSE", "IF", "LPAREN", "z", "RPAREN", "LBRACE",
        "RBRACE">>,
      <<"IF", "LPAREN", "x", "RPAREN", "f", "LPAREN", "RPAREN", "SEMICOLON">>,
      <<"IF", "LPAREN", "x", "RPAREN", "f", "LPAREN", "RPAREN", "SEMICOLON", "NL",
        "ELSE", "g", "LPAREN", "RPAREN", "SEMICOLON">>,
      <<"IF", "LPAREN", "x", "RPAREN", "INT", "y", "SEMICOLON">>,
      <<"IF", "LPAREN", "x", "RPAREN", "LBRACE", "RBRACE", "y">>,
      <<"IF", "LPAREN", "x", "LT", "y", "RPAREN", "LBRACE", "RBRACE">>,
      <<"IF", "LPAREN", "x", "LBRACE", "RBRACE">>, <<"IF", "x">>,
      <<"IF", "LPAREN", "RPAREN">>,
      <<"IF", "LPAREN", "x", "RPAREN", "LBRACE", "RBRACE", "ELSE", "IF", "y">>,
      <<"IF", "LPAREN", "x", "RPAREN", "LBRACE", "RBRACE", "ELSE", "IF", "LPAREN", "LT">>,
      <<"IF", "LPAREN", "x", "RPAREN", "LBRACE", "RBRACE", "ELSE", "IF", "LPAREN", "y",
        "LBRACE">>,
      <<"IF", "LPAREN", "x", "RPAREN", "LBRACE", "RBRACE", "ELSE", "RPAREN">>,
      <<"IF", "LPAREN", "x", "RPAREN", "RPAREN">>,
      <<"SWITCH", "LPAREN", "k", "RPAREN", "LBRACE", "CASE", "1", "COMMA", "2", "COMMA",
        "3", "COLON", "f", "LPAREN", "RPAREN", "SEMICOLON", "NL", "RBRACE">>,
      <<"SWITCH", "LPAREN", "k", "RPAREN", "LBRACE", "CASE", "x", "COLON", "LBRACE",
        "RBRACE", "NL", "RBRACE">>,
      <<"SWITCH", "LPAREN", "k", "RPAREN", "LBRACE", "CASE", "1", "COMMA", "COLON">>,
      <<"SWITCH", "LPAREN", "k", "RPAREN", "LBRACE", "CASE", "COLON">>,
      <<"SWITCH", "LPAREN", "k", "RPAREN", "LBRACE", "CASE", "1", "f">>,
      <<"SWITCH", "LPAREN", "k", "RPAREN", "LBRACE", "CASE", "1", "COLON", "RPAREN">>,
      <<"SWITCH", "LPAREN", "k", "RPAREN", "LBRACE", "x">>,
      <<"SWITCH", "LPAREN", "k", "RPAREN", "LBRACE", "DEFAULT", "x">>,
      <<"SWITCH", "LPAREN", "k", "RPAREN", "x">>, <<"SWITCH", "LPAREN", "k", "x">>,
      <<"SWITCH", "LPAREN", "RPAREN">>, <<"SWITCH", "k">>}}

\* Statements that end without a nested statement, each well formed, with the
\* kind of node the parser builds for it.  (do_() skips the token after `do`
\* before it expects the `{` of the block.)
\* Comma-separated declarations: new Float:a, b;  new const Float:a, b;
\* new Float:a, Float:b;  float a[3], b;  float a[], b[];  int[] a, b;
\* x a, b, c;  new a[3], b
SiblingDeclarations ==
  {<<"NEW", "Float", "COLON", "a", "COMMA", "b">>,
   <<"NEW", "CONST", "Float", "COLON", "a", "COMMA", "b">>,
   <<"NEW", "Float", "COLON", "a", "COMMA", "Float", "COLON", "b">>,
   <<"FLOAT", "a", "LBRACKET", "3", "RBRACKET", "COMMA", "b">>,
   <<"FLOAT", "a", "LBRACKET", "RBRACKET", "COMMA", "b", "LBRACKET", "RBRACKET">>,
   <<"INT", "LBRACKET", "RBRACKET", "a", "COMMA", "b">>,
   <<"x", "a", "COMMA", "b", "COMMA", "c">>,
   <<"NEW", "a", "LBRACKET", "3", "RBRACKET", "COMMA", "b">>}

SiblingStreams ==
  {WordsFrom(w \o f, 1) : w \in SiblingDeclarations, f \in {<<>>, <<"SEMICOLON">>}}

TerminatedStatements ==
  {[words |-> <<"BREAK">>, kind |-> "BreakStatement"],
   [words |-> <<"CONTINUE">>, kind |-> "ContinueStatement"],
   [words |-> <<"x", "ASSIGN", "1">>, kind |-> "ExpressionStatement"],
   [words |-> <<"f", "LPAREN", "RPAREN">>, kind |-> "ExpressionStatement"],
   [words |-> <<"RETURN", "x">>, kind |-> "ReturnStatement"],
   [words |-> <<"DO", "LBRACE", "LBRACE", "RBRACE", "WHILE", "LPAREN", "x", "RPAREN">>,
    kind |-> "WhileStatement"],
   [words |-> <<"INT", "x">>, kind |-> "VariableDeclarations"],
   [words |-> <<"INT", "x", "ASSIGN", "1">>, kind |-> "VariableDeclarations"],
   [words |-> <<"NEW", "x", "COMMA", "y">>, kind |-> "VariableDeclarations"],
   [words |-> <<"ENUM", "e", "LBRACE", "a", "RBRACE">>, kind |-> "EnumStatement"]}

\* What follows the statement: nothing, a `;`, a line break, or another token
\* on the same line.
Followers ==
  {<<>>, <<"SEMICOLON">>, <<"SEMICOLON", "z">>, <<"NL", "z">>, <<"NL", "SEMICOLON">>,
   <<"z">>, <<"RBRACE">>, <<"RPAREN">>}

TerminatorStreams ==
  {WordsFrom(s.words \o f, 1) : s \in TerminatedStatements, f \in Followers}

StatementStreams ==
  {Line(IfChained), Line(SwitchOneLine)} \cup IfChainedStreams \cup SwitchStreams
    \cup OtherStatementStreams \cup TerminatorStreams \cup SiblingStreams

\* The streams handed to statement(), and the chains of two relational
\* operators handed to relational().
StatementEntries ==
  {[toks |-> s, fn |-> "statement", tags |-> t, semis |-> r]
     : s \in StatementStreams, t \in BOOLEAN, r \in BOOLEAN}
    \cup {[toks |-> Chain(ops), fn |-> "relational", tags |-> t, semis |-> FALSE]
            : ops \in [1..2 -> RelationalTokens], t \in BOOLEAN}

InitStatement ==
  /\ entry \in StatementEntries
  /\ toks = entry.toks
  /\ ps = ParserInit(entry.tags, entry.semis)
  /\ expr = Null
  /\ mode = [fn |-> "none"]
  /\ em = EmitterInit
  /\ pc = "start"

\* Parser::statement() on the token stream.
ParseStatement ==
  /\ pc = "start"
  /\ entry.fn = "statement"
  /\ ps' \in Invoke("statement", ps, NoArgs)
  /\ pc' = "done"
  /\ UNCHANGED <<expr, mode, em, toks, entry>>

NextStatement == ParseStatement \/ ParseExpression

SpecStatement == InitStatement /\ [][NextStatement]_vars

(***************************************************************************)
(* Token streams handed to Parser::parse: one top-level item per line.     *)
(***************************************************************************)
\* The largest number of top-level items of a stream.
MaxItems == 3

\* The words of an item that declares name: items that parse, an item whose
\* production fails and leaves the scanner at the end of the line (bad), a
\* functag line, a token that starts no global (stray) and a scanner error.
ItemWords(item, name) ==
  CASE item = "var" -> <<"INT", name, "SEMICOLON">>
    [] item = "old" -> <<"NEW", name, "ASSIGN", "5", "SEMICOLON">>
    [] item = "func" -> <<"PUBLIC", name, "LPAREN", "INT", "x", "RPAREN", "LBRACE",
                          "RETURN", "x", "SEMICOLON", "RBRACE">>
    [] item = "native" -> <<"NATIVE", "INT", name, "LPAREN", "RPAREN", "SEMICOLON">>
    [] item = "enum" -> <<"ENUM", name, "LBRACE", "x", "COMMA", "y", "RBRACE", "SEMICOLON">>
    [] item = "struct" -> <<"STRUCT", name, "LBRACE", "NL", "PUBLIC", "INT", "x",
                            "SEMICOLON", "NL", "RBRACE", "SEMICOLON">>
    [] item = "typedef" -> <<"TYPEDEF", name, "ASSIGN", "FUNCTION", "VOID", "LPAREN",
                             "RPAREN", "SEMICOLON">>
    [] item = "methodmap" -> <<"METHODMAP", name, "LBRACE", "NL",
                               "PUBLIC", "NATIVE", "INT", "x", "LPAREN", "RPAREN",
                               "SEMICOLON", "NL",
                               "PROPERTY", "INT", "y", "LBRACE", "NL",
                               "PUBLIC", "get", "LPAREN", "RPAREN", "ASSIGN", "z",
                               "SEMICOLON", "NL",
                               "RBRACE", "NL", "RBRACE", "SEMICOLON">>
    [] item = "bad" -> <<"NATIVE", "5", "SEMICOLON">>
    [] item = "functag" -> <<"FUNCTAG", name, "PUBLIC">>
    [] item = "stray" -> <<"RPAREN">>
    [] item = "error" -> <<"ERROR">>

GoodItems == {"var", "old", "func", "native", "enum", "struct", "typedef", "methodmap"}

Items == GoodItems \cup {"bad", "functag", "stray", "error"}

\* The stream of items k, k + 1, ..., item k starting on the given line and
\* declaring OperandNames[k]; every item starts on a line of its own.
RECURSIVE ItemsFrom(_, _, _)
ItemsFrom(items, k, line) ==
  IF k > Len(items) THEN <<>>
  ELSE WordsFrom(ItemWords(items[k], OperandNames[k]), line)
         \o ItemsFrom(items, k + 1,
                      line + Breaks(ItemWords(items[k], OperandNames[k]),
                                    Len(ItemWords(items[k], OperandNames[k]))) + 1)

ItemStream(items) == ItemsFrom(items, 1, 1)

\* The items that make up the longer streams.
CoreItems == {"var", "func", "bad", "functag", "stray", "error"}

\* Up to MaxItems core items; and every item alone, before a good item and
\* after a failing one.
ItemLists ==
  UNION {[1..n -> CoreItems] : n \in 0..MaxItems}
    \cup UNION {{<<g>>, <<g, "var">>, <<"bad", g>>} : g \in Items}

ParseEntries ==
  {[toks |-> ItemStream(items), fn |-> "parse", tags |-> t, items |-> items]
     : items \in ItemLists, t \in BOOLEAN}

InitParse ==
  /\ entry \in ParseEntries
  /\ toks = entry.toks
  /\ ps = ParserInit(entry.tags, FALSE)
  /\ expr = Null
  /\ mode = [fn |-> "none"]
  /\ em = EmitterInit
  /\ pc = "start"

\* Parser::parse() on the token stream: one step for each iteration of its
\* loop, the last one returning.
ParseIteration ==
  /\ pc = "start"
  /\ entry.fn = "parse"
  /\ ps' \in Invoke("parse_iteration", ps, NoArgs)
  /\ pc' = IF ps'.tree = Running THEN "start" ELSE "done"
  /\ UNCHANGED <<expr, mode, em, toks, entry>>

NextParse == ParseIteration

SpecParse == InitParse /\ [][NextParse]_vars


(***************************************************************************)
(* Token streams handed to Parser::struct_, closed and cut off, and the    *)
(* production run one pass of its loop at a time.                          *)
(***************************************************************************)
\* The largest number of entries struct_ appends to its list; the streams
\* have fewer fields.
MaxFields == 3

\* A field of a struct or union: `int x;`, `T x` and a bare `int`, each on a
\* line of its own, with `public` before it in a struct.
FieldWords(kind, field, name) ==
  (IF kind = "STRUCT" THEN <<"PUBLIC">> ELSE <<>>)
    \o (CASE field = "typed" -> <<"INT", name, "SEMICOLON">>
          [] field = "named" -> <<"T", name>>
          [] field = "bare" -> <<"INT">>)
    \o <<"NL">>

\* How the stream ends: with `}`, with `};`, or inside the body.
EndWords(end) ==
  CASE end = "closed" -> <<"RBRACE">>
    [] end = "semi" -> <<"RBRACE", "SEMICOLON">>
    [] end = "cut" -> <<>>

LayoutWords(kind, fields, end) ==
  <<kind, "X", "LBRACE", "NL">>
    \o Flatten([k \in 1..Len(fields) |-> FieldWords(kind, fields[k], OperandNames[k])])
    \o EndWords(end)

LayoutStreams ==
  {WordsFrom(LayoutWords(kind, fields, end), 1)
     : kind \in {"STRUCT", "UNION"},
       fields \in UNION {[1..n -> {"typed", "named", "bare"}] : n \in 0..(MaxFields - 1)},
       end \in {"closed", "semi", "cut"}}
    \cup {WordsFrom(w, 1) : w \in {<<"UNION">>, <<"STRUCT", "X">>, <<"UNION", "X", "x">>}}

LayoutEntries ==
  {[toks |-> s, fn |-> "struct_", tags |-> t] : s \in LayoutStreams, t \in BOOLEAN}

InitLayout ==
  /\ entry \in LayoutEntries
  /\ toks = entry.toks
  /\ ps = ParserInit(entry.tags, FALSE)
  /\ expr = Null
  /\ mode = [fn |-> "none"]
  /\ em = EmitterInit
  /\ pc = "start"

\* The locals of struct_ but the list, which is kept in ps.list.
Frame(st) == [fn |-> "struct_", loc |-> st.loc, kind |-> st.kind, name |-> st.name]

Locals == [loc |-> mode.loc, kind |-> mode.kind, name |-> mode.name, list |-> ps.list]

\* Parser::parse() reads `struct` or `union` and calls struct_(kind), which
\* runs up to its loop.
StructEnter ==
  /\ pc = "start"
  /\ entry.fn = "struct_"
  /\ \E r \in struct__enter(next(ps), next(ps).cur.kind) :
       /\ ps' = [r.ps EXCEPT !.list = r.st.list]
       /\ mode' = Frame(r.st)
       /\ pc' = IF r.again THEN "loop" ELSE "done"
  /\ UNCHANGED <<expr, em, toks, entry>>

\* One pass of the loop of struct_; the last one returns.
StructIteration ==
  /\ pc = "loop"
  /\ Len(ps.list) < MaxFields
  /\ \E r \in struct__iteration(ps, Locals) :
       /\ ps' = [r.ps EXCEPT !.list = r.st.list]
       /\ pc' = IF r.again THEN "loop" ELSE "done"
  /\ UNCHANGED <<expr, mode, em, toks, entry>>

NextLayout == StructEnter \/ StructIteration

SpecLayout == InitLayout /\ [][NextLayout]_vars
(***************************************************************************)
(* Properties of the code generator.                                       *)
(***************************************************************************)
RECURSIVE SameOp(_, _), Operands(_), C1Expected(_, _, _, _, _, _)

\* Every logical node of e has the token tok.
SameOp(e, tok) ==
  e.kind = "LogicalExpr" => (e.token = tok /\ SameOp(e.left, tok) /\ SameOp(e.right, tok))

\* The non-logical operands of e in source order.
Operands(e) ==
  IF e.kind = "LogicalExpr" THEN Operands(e.left) \o Operands(e.right) ELSE <<e>>

\* The code of an operand emitted on its own.
OperandCode(x) == (CHOOSE m \in Expr_Emit(x, EmitterInit) : TRUE).trace

C1Jump(tok, jump_on_true, last, taken, fallthrough) ==
  IF tok = "tlOR"
    THEN IF jump_on_true THEN <<"jmp_ne0", taken>>
         ELSE IF last THEN <<"jmp_eq0", taken>> ELSE <<"jmp_ne0", fallthrough>>
    ELSE IF ~jump_on_true THEN <<"jmp_eq0", taken>>
         ELSE IF last THEN <<"jmp_ne0", taken>> ELSE <<"jmp_eq0", fallthrough>>

C1Expected(ops, i, tok, jump_on_true, taken, fallthrough) ==
  IF i > Len(ops) THEN <<>>
  ELSE OperandCode(ops[i])
       \o <<C1Jump(tok, jump_on_true, i = Len(ops), taken, fallthrough)>>
       \o C1Expected(ops, i + 1, tok, jump_on_true, taken, fallthrough)

\* C1: a logical expression whose operands all belong to one operator is
\* tested by emitting the operands in source order, each followed by exactly
\* the one conditional jump of the truth table for (operator, jump_on_true).
C1_FlatLogicalTruthTable ==
  (pc = "done" /\ mode.fn = "EmitTest" /\ expr.kind = "LogicalExpr"
     /\ SameOp(expr, expr.token))
  => em.trace = C1Expected(Operands(expr), 1, expr.token, mode.jump_on_true,
                           mode.taken, mode.fallthrough)

C1_Witness ==
  /\ pc = "done" /\ mode.fn = "EmitTest" /\ ~mode.jump_on_true
  /\ expr = Logical("tlOR", Logical("tlOR", Var("a"), Var("b")), Var("c"))
  /\ em.trace = <<<<"rvalue", "a">>, <<"jmp_ne0", 2>>, <<"rvalue", "b">>,
                  <<"jmp_ne0", 2>>, <<"rvalue", "c">>, <<"jmp_eq0", 1>>>>

AandBorC == Logical("tlOR", Logical("tlAND", Var("a"), Var("b")), Var("c"))

\* C2: testing `a && b || c` with jump_on_true emits: a, jump-if-false to a
\* label L1; b, jump-if-true to TAKEN; L1 set here; c, jump-if-true to TAKEN.
C2_NestedAndJumpsToNextOperand ==
  (pc = "done" /\ mode.fn = "EmitTest" /\ mode.jump_on_true /\ expr = AandBorC)
  => \E L1 \in 0 .. (em.nlabel + 1) :
       em.trace = <<<<"rvalue", "a">>, <<"jmp_eq0", L1>>, <<"rvalue", "b">>,
                     <<"jmp_ne0", mode.taken>>, <<"setlabel", L1>>,
                     <<"rvalue", "c">>, <<"jmp_ne0", mode.taken>>>>

CountOp(trace, names) ==
  Cardinality({i \in 1..Len(trace) : trace[i][1] \in names})

\* The frame depth after the first k instructions, relative to the entry.
HeapDepth(trace, k) ==
  CountOp(SubSeq(trace, 1, k), {"pushheaplist"})
    - CountOp(SubSeq(trace, 1, k), {"pop_static_heaplist", "popheaplist"})

\* The frame depth never drops below its entry value and ends at it.
HeapBalanced(trace) ==
  /\ \A k \in 0..Len(trace) : HeapDepth(trace, k) >= 0
  /\ HeapDepth(trace, Len(trace)) = 0

\* C3: in the emit trace of a ternary or call expression the heap-list
\* frames are balanced: every pushheaplist has exactly one matching pop, the
\* depth never goes below the entry depth and is back at it at the end.
C3_HeapListBalanced ==
  (pc = "done" /\ expr.kind \in {"TernaryExpr", "CallExpr"})
  => /\ HeapBalanced(em.trace)
     /\ CountOp(em.trace, {"pushheaplist"})
          = CountOp(em.trace, {"pop_static_heaplist", "popheaplist"})
     /\ em.heap = <<>>
     /\ ~em.herr

C3_Witness ==
  /\ pc = "done" /\ expr.kind = "TernaryExpr"
  /\ expr.second.kind = "CallExpr" /\ expr.third.kind = "TernaryExpr"
  /\ CountOp(em.trace, {"pushheaplist"}) >= 5

\* The operators the claim counts as commutative.
C9Commutative(oper) == oper \in {"ob_add", "os_mult"}

C9Bracket(code, saved) ==
  IF saved THEN <<<<"pushreg", "PRI">>>> \o code \o <<<<"popreg", "ALT">>>> ELSE code

C9Operands(root) ==
  LET l == root.left.val
      r == root.right.val
      saved == (root.oper # NoOper) \/ ~l.remat
  IN IF l.ident = "CONSTEXPR" /\ r.ident = "CONSTEXPR"
       THEN <<<<"ldconst", r.constval, "PRI">>, <<"ldconst", l.constval, "ALT">>>>
     ELSE IF l.ident = "CONSTEXPR"
       THEN OperandCode(root.right) \o <<<<"ldconst", l.constval, "ALT">>>>
     ELSE IF r.ident = "CONSTEXPR" /\ C9Commutative(root.oper)
       THEN <<<<"ldconst", r.constval, "ALT">>>>
     ELSE IF r.ident = "CONSTEXPR"
       THEN C9Bracket(<<<<"ldconst", r.constval, "PRI">>>>, saved)
     ELSE C9Bracket(OperandCode(root.right), saved)

C9Operator(root) ==
  IF root.oper = NoOper THEN <<>>
  ELSE IF root.userop # NoSym THEN <<<<"userop", root.userop>>>>
  ELSE <<<<"oper", root.oper>>>>

OnePlusTwoTimesThree ==
  Binary("+", "ob_add", NoSym, Num(1), Binary("*", "os_mult", NoSym, Num(2), Num(3)))

\* C9: EmitInner emits exactly the operand sequence of its case table (both
\* constant; left constant; right constant and commutative; right constant;
\* general), the push/pop pair being present iff an operator exists or the
\* left operand cannot rematerialize, followed by the user-op or the opcode
\* when there is an operator; and `1 + 2 * 3` emits
\* ldconst 3 PRI; ldconst 2 ALT; mul; ldconst 1 ALT; add.
C9_EmitInnerCaseTable ==
  /\ (pc = "done" /\ mode.fn = "EmitInner")
       => em.trace = C9Operands(expr) \o C9Operator(expr)
  /\ (pc = "done" /\ mode.fn = "Emit" /\ expr = OnePlusTwoTimesThree)
       => em.trace = <<<<"ldconst", 3, "PRI">>, <<"ldconst", 2, "ALT">>,
                       <<"oper", "os_mult">>, <<"ldconst", 1, "ALT">>,
                       <<"oper", "ob_add">>>>

C9_Witness ==
  /\ pc = "done" /\ mode.fn = "EmitInner"
  /\ expr.oper = NoOper /\ ~expr.left.val.remat
  /\ expr.right.val.ident # "CONSTEXPR"
  /\ em.trace = <<<<"pushreg", "PRI">>>> \o OperandCode(expr.right)
                  \o <<<<"popreg", "ALT">>>>

(***************************************************************************)
(* Properties of the parser.                                               *)
(***************************************************************************)
\* The expression ladder of the grammar, loosest level first.
Ladder ==
  <<AssignTokens, {"OR"}, {"AND"}, {"EQUALS", "NOTEQUALS"}, RelationalTokens,
    {"BITOR"}, {"BITXOR"}, {"BITAND"}, {"SHL", "SHR", "USHR"}, {"PLUS", "MINUS"},
    {"STAR", "SLASH", "PERCENT"}>>

Level(op) == CHOOSE i \in 1..Len(Ladder) : op \in Ladder[i]

\* The node of a binary operator token.
OpNode(pos, token, left, right) ==
  IF token \in AssignTokens
    THEN [kind |-> "Assignment", pos |-> pos, token |-> token, left |-> left,
          right |-> right]
    ELSE BinaryExpression(pos, token, left, right)

Name(i) == [kind |-> "NameProxy", pos |-> i, name |-> toks[i].name]

\* The canonical tree of toks = a OP1 b OP2 c.
Canonical ==
  IF Level(toks[4].kind) > Level(toks[2].kind)
       \/ (Level(toks[4].kind) = Level(toks[2].kind) /\ toks[2].kind \in AssignTokens)
    THEN OpNode(2, toks[2].kind, Name(1), OpNode(4, toks[4].kind, Name(3), Name(5)))
    ELSE OpNode(4, toks[4].kind, OpNode(2, toks[2].kind, Name(1), Name(3)), Name(5))

\* C4: for every pair of binary operators of the ladder, parsing
\* `a OP1 b OP2 c` consumes the whole input and yields the tree whose inner
\* node is the tighter-binding operator; equal precedence leans left, except
\* assignment, which leans right.
C4_CanonicalParenthesization ==
  (pc = "done" /\ entry.fn = "expression" /\ toks \in OpPairStreams)
    => (ps.pos = Len(toks) /\ ps.node = Canonical)

ALessThanBOrC == <<N("a"), Op("LT"), N("b"), Op("BITOR"), N("c")>>

\* The diagnostics of p with the given code.
Reported(p, code) == SelectSeq(p.diags, LAMBDA d : d.code = code)

\* The number of operators of the chain toks.
ChainLength == (Len(toks) - 1) \div 2

\* The left-leaning tree of the first k operators of the chain toks.
RECURSIVE LeftLeaning(_)
LeftLeaning(k) ==
  IF k = 0 THEN Name(1)
  ELSE BinaryExpression(2 * k, toks[2 * k].kind, LeftLeaning(k - 1), Name(2 * k + 1))

\* C6 as stated: two chained relational operators are accepted as a
\* left-leaning BinaryExpression without a NoChainedRelationalOps diagnostic;
\* only a third chained operator raises it, exactly once, and then no node is
\* returned.
C6_TwoChainedAccepted ==
  (pc = "done" /\ toks \in RelChainStreams)
    => /\ ChainLength = 2
            => /\ Reported(ps, "NoChainedRelationalOps") = <<>>
               /\ ps.node = LeftLeaning(2)
       /\ ChainLength > 2
            => /\ Len(Reported(ps, "NoChainedRelationalOps")) = 1
               /\ ps.node = Null

\* C6: one relational operator is accepted as a BinaryExpression without a
\* NoChainedRelationalOps diagnostic; a second chained relational operator
\* raises the diagnostic, and then exactly one NoChainedRelationalOps is
\* reported and no node is returned.
C6_SecondChainedRejected ==
  (pc = "done" /\ toks \in RelChainStreams)
    => /\ ChainLength = 1
            => /\ Reported(ps, "NoChainedRelationalOps") = <<>>
               /\ ps.node = LeftLeaning(1)
       /\ ChainLength > 1
            => /\ Len(Reported(ps, "NoChainedRelationalOps")) = 1
               /\ ps.node = Null

C6_Witness ==
  /\ pc = "done" /\ entry.fn = "relational"
  /\ toks = <<N("a"), Op("LT"), N("b"), Op("LE"), N("c")>>
  /\ ps.diags = <<[code |-> "NoChainedRelationalOps", loc |-> 4]>>
  /\ ps.node = Null

(***************************************************************************)
(* Properties of parse_decl.                                               *)
(***************************************************************************)
\* The kind of the token the scanner produces after pos raw tokens.
LexKind(pos, tags) ==
  IF RawAt(pos + 1).kind = "NAME" /\ tags /\ RawAt(pos + 2).kind = "COLON" THEN "LABEL"
  ELSE RawAt(pos + 1).kind

\* The invocations of parse_decl so far, and the styles each one ran.
DeclInvocations == {i \in 1..Len(ps.calls) : ps.calls[i].fn = "parse_decl"}

StylesRun(i) ==
  SelectSeq(ps.calls, LAMBDA c : c.inv = ps.calls[i].inv /\ c.fn # "parse_decl")

\* The style the rules give for the invocation recorded at calls[i], from the
\* tokens at its position; "any" for a NAME followed by `[`.
StyleByRule(i) ==
  LET c == ps.calls[i]
      after == IF LexKind(c.pos, c.tags) = "CONST" THEN c.pos + 1 ELSE c.pos
      first == LexKind(after, c.tags)
      second == LexKind(after + 1, c.tags)
  IN CASE "Argument" \in c.flags /\ LexKind(c.pos, c.tags) = "ELLIPSES" -> "parse_old_decl"
       [] OTHER ->
          CASE "Old" \in c.flags -> "parse_old_decl"
            [] OTHER ->
               CASE "Argument" \in c.flags /\ first \in {"AMPERSAND", "LBRACE"} ->
                      "parse_old_decl"
                 [] OTHER ->
                    CASE first = "LABEL" -> "parse_old_decl"
                      [] first = "NAME" /\ second \in {"NAME", "AMPERSAND"} ->
                           "parse_new_decl"
                      [] first = "NAME" /\ second = "LBRACKET" -> "any"
                      [] first = "NAME" /\ second \notin {"NAME", "AMPERSAND", "LBRACKET"} ->
                           "parse_old_decl"
                      [] OTHER -> "parse_new_decl"

\* C5: every call of parse_decl runs at most one of parse_old_decl and
\* parse_new_decl, and the one it runs is the one the rules give: old style
\* for (Argument and `...`), the Old flag, (Argument and `&` or `{`), a label,
\* and a NAME followed by neither NAME, `&` nor `[`; new style for a NAME
\* followed by NAME or `&` and for any other first token.
C5_OneStylePerCall ==
  \A i \in DeclInvocations :
    /\ Len(StylesRun(i)) <= 1
    /\ StyleByRule(i) # "any" =>
         /\ Len(StylesRun(i)) = 1
         /\ StylesRun(i)[1].fn = StyleByRule(i)

\* parse_decl has returned for `x y ...` handed to it as a variable, having
\* run parse_new_decl, and for an argument list it has run a nested call.
C5_Witness ==
  /\ pc = "done"
  /\ entry.fn = "parse_decl"
  /\ Len(toks) >= 2
  /\ toks[1].kind = "NAME" /\ toks[2].kind = "NAME"
  /\ "Old" \notin entry.flags
  /\ \E i \in DeclInvocations :
       /\ ps.calls[i].inv = 1
       /\ Len(StylesRun(i)) = 1
       /\ StylesRun(i)[1].fn = "parse_new_decl"

(***************************************************************************)
(* Properties of statements and of Parser::parse.                          *)
(***************************************************************************)
\* The index in toks of the n-th token of the kind.
NthOf(kind, n) ==
  CHOOSE i \in 1..Len(toks) :
    /\ toks[i].kind = kind
    /\ Cardinality({j \in 1..i : toks[j].kind = kind}) = n

\* C7: `x < y < z` as the condition of an if statement (and handed to
\* relational() itself) reports exactly one NoChainedRelationalOps, located
\* at the second relational operator, and no node is returned: relational()
\* returns none, and so does the if statement.
C7_ChainedConditionRejected ==
  /\ (pc = "done" /\ entry.fn = "statement" /\ toks \in IfChainedStreams)
       => /\ ps.diags = <<[code |-> "NoChainedRelationalOps", loc |-> 6]>>
          /\ toks[6].kind \in RelationalTokens /\ toks[4].kind \in RelationalTokens
          /\ ps.node = Null
  /\ (pc = "done" /\ entry.fn = "relational")
       => /\ ps.diags = <<[code |-> "NoChainedRelationalOps", loc |-> 4]>>
          /\ ps.node = Null

C7_Witness ==
  /\ pc = "done" /\ entry.fn = "statement"
  /\ toks = Line(IfChained)
  /\ Reported(ps, "NoChainedRelationalOps") =
       <<[code |-> "NoChainedRelationalOps", loc |-> NthOf("LT", 2)]>>
  /\ ps.node = Null

\* C10 as stated: the one-line switch reports SingleStatementPerCase at the
\* boundary before `case 2` and DefaultMustBeLastCase located at `case 3`.
C10_SingleStatementAndCaseLocation ==
  (pc = "done" /\ entry.fn = "statement" /\ toks = Line(SwitchOneLine))
    => /\ \E d \in {ps.diags[i] : i \in 1..Len(ps.diags)} :
            /\ d.code = "SingleStatementPerCase"
            /\ d.loc \in {NthOf("SEMICOLON", 1), NthOf("CASE", 2)}
       /\ [code |-> "DefaultMustBeLastCase", loc |-> NthOf("CASE", 3)]
            \in {ps.diags[i] : i \in 1..Len(ps.diags)}

\* C10: the one-line switch reports ExpectedNewline at the `;` that ends each
\* of `a();`, `b();` and `c();`, no SingleStatementPerCase, and, on reaching
\* `case 3`, DefaultMustBeLastCase located at the `default` token; no node is
\* returned.
C10_ExpectedNewlineAndDefaultLocation ==
  (pc = "done" /\ entry.fn = "statement" /\ toks = Line(SwitchOneLine))
    => /\ ps.diags = <<[code |-> "ExpectedNewline", loc |-> NthOf("SEMICOLON", 1)],
                       [code |-> "ExpectedNewline", loc |-> NthOf("SEMICOLON", 2)],
                       [code |-> "ExpectedNewline", loc |-> NthOf("SEMICOLON", 3)],
                       [code |-> "DefaultMustBeLastCase", loc |-> NthOf("DEFAULT", 1)]>>
       /\ ps.node = Null

C10_Witness ==
  /\ pc = "done" /\ entry.fn = "statement"
  /\ toks = Line(SwitchOneLine)
  /\ Len(Reported(ps, "DefaultMustBeLastCase")) = 1
  /\ Len(Reported(ps, "ExpectedNewline")) = 3
  /\ ps.node = Null

\* The name a top-level statement declares.
DeclaredName(node) ==
  CASE node.kind = "VariableDeclarations" -> node.vars[1].name.name
    [] node.kind \in {"FunctionStatement", "LayoutStatement"} -> node.name.name
    [] OTHER -> node.name

\* The names the items declare, in order: of all the good items, and of the
\* good items before the first stray token.
GoodNames(items) ==
  LET at == SelectSeq([k \in 1..Len(items) |-> k], LAMBDA k : items[k] \in GoodItems)
  IN [j \in 1..Len(at) |-> OperandNames[at[j]]]

FirstOf(items, kinds) ==
  IF \E k \in 1..Len(items) : items[k] \in kinds
    THEN CHOOSE k \in 1..Len(items) :
           items[k] \in kinds /\ \A j \in 1..(k - 1) : items[j] \notin kinds
    ELSE Len(items) + 1

Before(items, k) == SubSeq(items, 1, k - 1)

\* The number of tokens of the items before item k.
TokensBefore(items, k) == Len(ItemStream(Before(items, k)))

AXorBAndC == <<N("a"), Op("BITXOR"), N("b"), Op("BITAND"), N("c")>>

\* C20: parsing `a ^ b & c` consumes all five tokens and yields
\* BinaryExpression(^, a, BinaryExpression(&, b, c)).
C20_XorOfAnd ==
  (pc = "done" /\ entry.fn = "expression" /\ toks = AXorBAndC)
    => /\ ps.pos = 5
       /\ ps.node = BinaryExpression(2, "BITXOR", Name(1),
                                     BinaryExpression(4, "BITAND", Name(3), Name(5)))
(***************************************************************************)
(* Properties of the statement terminator.                                 *)
(***************************************************************************)
\* The entry is the terminated statement s followed by f.
IsTerminated(s, f) ==
  /\ pc = "done"
  /\ entry.fn = "statement"
  /\ entry.toks = WordsFrom(s.words \o f, 1)

\* The number of tokens of a sequence of words.
Tokens(words) == Len(WordsFrom(words, 1))

HasSemicolon(f) == f # <<>> /\ (f[1] = "SEMICOLON" \/ f = <<"NL", "SEMICOLON">>)

EndsLine(f) == f = <<>> \/ f[1] = "NL"

\* C11: after a statement that does not end in a nested statement the parser
\* checks for a terminator.  With required semicolons the next token must be
\* a `;`, anything else being reported; otherwise a `;` or the end of the
\* line suffices and anything else is reported as ExpectedNewlineOrSemi.  The
\* `;` is consumed, and the statement's node is returned whether or not the
\* check failed.
C11_TerminatorChecked ==
  \A s \in TerminatedStatements, f \in Followers :
    IsTerminated(s, f) =>
      /\ ps.node # Null
      /\ ps.node.kind = s.kind
      /\ IF HasSemicolon(f)
           THEN ps.diags = <<>> /\ ps.pos = Tokens(s.words) + 1
         ELSE IF entry.semis
           THEN /\ Len(ps.diags) = 1
                /\ ps.diags[1].code = "WrongToken"
         ELSE IF EndsLine(f)
           THEN ps.diags = <<>> /\ ps.pos = Tokens(s.words)
         ELSE /\ ps.diags = <<[code |-> "ExpectedNewlineOrSemi",
                               loc |-> Tokens(s.words)]>>
              /\ ps.pos = Tokens(s.words)

\* `x = 1 z` without required semicolons: the diagnostic is recorded and the
\* ExpressionStatement is returned.
C11_Witness ==
  /\ IsTerminated([words |-> <<"x", "ASSIGN", "1">>, kind |-> "ExpressionStatement"],
                  <<"z">>)
  /\ ~entry.semis
  /\ ps.node # Null
  /\ ps.node.kind = "ExpressionStatement"
  /\ Len(ps.diags) = 1
  /\ ps.diags[1].code = "ExpectedNewlineOrSemi"

\* int x[], y;
IntXArrayY == <<"INT", "x", "LBRACKET", "RBRACKET", "COMMA", "y", "SEMICOLON">>

\* C12: `int x[], y;` yields two VariableDeclarations, x before y: x of rank
\* 1 with post-dims, y of rank 0 with no dimensions, both of builtin type int;
\* parsing y leaves the array shape recorded in x as it was.
C12_SiblingDeclarations ==
  (pc = "done" /\ entry.fn = "statement" /\ entry.toks = WordsFrom(IntXArrayY, 1)) =>
    /\ ps.diags = <<>>
    /\ ps.node # Null
    /\ ps.node.kind = "VariableDeclarations"
    /\ Len(ps.node.vars) = 2
    /\ LET x == ps.node.vars[1]
           y == ps.node.vars[2]
       IN /\ x.name.name = "x" /\ y.name.name = "y"
          /\ x.spec.resolver = "INT" /\ y.spec.resolver = "INT"
          /\ x.spec.proxy = Null /\ y.spec.proxy = Null
          /\ x.spec.rank = 1 /\ x.spec.hasPostDims /\ x.spec.dims = Null
          /\ y.spec.rank = 0 /\ y.spec.dims = Null

C12_Witness ==
  /\ pc = "done"
  /\ entry.fn = "statement"
  /\ entry.toks = WordsFrom(IntXArrayY, 1)
  /\ ps.node # Null
  /\ Len(ps.node.vars) = 2
  /\ ps.node.vars[1].spec.rank = 1
  /\ ps.node.vars[2].spec.rank = 0
(***************************************************************************)
(* Properties of TernaryExpr::DoEmit.                                      *)
(***************************************************************************)
\* The position of the one occurrence of an instruction in a trace.
At(trace, ins) == CHOOSE i \in 1..Len(trace) : trace[i] = ins

Occurrences(trace, ins) == Cardinality({i \in 1..Len(trace) : trace[i] = ins})

\* The emitter state a branch is emitted in, and the state after it.
AfterBranch(x, nlabel) ==
  CHOOSE m \in Expr_Emit(x, [EmitterInit EXCEPT !.nlabel = nlabel, !.heap = <<0>>]) : TRUE

RECURSIVE StaticTotal(_, _)
\* The static allocations the first k instructions of a branch make in the
\* frame the branch is emitted in.
StaticTotal(code, k) ==
  IF k = 0 THEN 0
  ELSE StaticTotal(code, k - 1)
         + (IF HeapDepth(code, k - 1) # 0 THEN 0
            ELSE IF code[k][1] = "markheap" /\ code[k][2] = "MEMUSE_STATIC" THEN code[k][3]
            ELSE IF code[k][1] = "setheap_pri" THEN 1
            ELSE 0)

\* A branch's code, then pop_static_heaplist, then setheap_save iff the
\* branch made static allocations.
C13Branch(seg, code) ==
  LET total == StaticTotal(code, Len(code))
  IN seg = code \o <<<<"pop_static_heaplist">>>>
             \o (IF total # 0 THEN <<<<"setheap_save", total * CellSize>>>> ELSE <<>>)

C13Layout(e, trace) ==
  LET flab1 == 1
      flab2 == 2
      p1 == At(trace, <<"jmp_eq0", flab1>>)
      p2 == At(trace, <<"jumplabel", flab2>>)
      p3 == At(trace, <<"setlabel", flab1>>)
      p4 == At(trace, <<"setlabel", flab2>>)
      second == AfterBranch(e.second, 2)
      third == AfterBranch(e.third, second.nlabel)
      total1 == StaticTotal(second.trace, Len(second.trace))
      total2 == StaticTotal(third.trace, Len(third.trace))
  IN /\ \A ins \in {<<"jmp_eq0", flab1>>, <<"jumplabel", flab2>>, <<"setlabel", flab1>>,
                    <<"setlabel", flab2>>} : Occurrences(trace, ins) = 1
     /\ p1 < p2 /\ p3 = p2 + 1 /\ p3 < p4
     /\ SubSeq(trace, 1, p1 - 1) = OperandCode(e.first) \o <<<<"pushheaplist">>>>
     /\ trace[p2 - 1] = <<"pushheaplist">>
     /\ C13Branch(SubSeq(trace, p1 + 1, p2 - 2), second.trace)
     /\ C13Branch(SubSeq(trace, p3 + 1, p4 - 1), third.trace)
     /\ SubSeq(trace, p4 + 1, Len(trace))
          = (IF e.val.ident = "REFARRAY" /\ total1 # 0 /\ total2 # 0
               THEN <<<<"markheap", "MEMUSE_DYNAMIC", 0>>>> ELSE <<>>)
     /\ (total1 # 0 /\ total2 # 0 /\ e.second.kind # "TernaryExpr"
           /\ e.third.kind # "TernaryExpr")
          => Cardinality({i \in 1..Len(trace) : trace[i][1] = "setheap_save"}) = 2

\* C13: for a ternary not folded to a constant, TernaryExpr::DoEmit emits the
\* condition, pushheaplist, jmp_eq0(flab1),
\* the then-branch, pop_static_heaplist and setheap_save iff the popped total
\* is non-zero, pushheaplist, jumplabel(flab2), setlabel(flab1), the
\* else-branch, pop_static_heaplist with the same setheap_save rule,
\* setlabel(flab2), and markheap(MEMUSE_DYNAMIC, 0) iff the result is a
\* REFARRAY and both totals are non-zero; two setheap_save when both branches
\* allocate.
C13_TernaryLayout ==
  (pc = "done" /\ mode.fn = "Emit" /\ expr.kind = "TernaryExpr"
     /\ expr.val.ident # "CONSTEXPR") =>
    C13Layout(expr, em.trace)

\* x ? f() : f(), both calls returning arrays, of REFARRAY type.
C13_Witness ==
  /\ pc = "done" /\ mode.fn = "Emit"
  /\ expr = Ternary(Var("a"), HeapCall, HeapCall, "REFARRAY")
  /\ Cardinality({i \in 1..Len(em.trace) : em.trace[i][1] = "setheap_save"}) = 2
  /\ em.trace[Len(em.trace)] = <<"markheap", "MEMUSE_DYNAMIC", 0>>

(***************************************************************************)
(* Properties of IndexExpr::DoEmit.                                        *)
(***************************************************************************)
C14Dynamic == pc = "done" /\ mode.fn = "Emit" /\ expr \in IndexInputs
                /\ expr.expr.val.ident # "CONSTEXPR"

C14Packed(e) == e.basesym.string /\ e.basesym.level = 0

\* The bounds check and the address conversion the claim gives for the base.
C14Check(e) ==
  IF C14Packed(e)
    THEN <<<<"ffbounds", e.basesym.length * (32 \div sCHARBITS) - 1>>, <<"char2addr">>>>
    ELSE <<<<"ffbounds", e.basesym.length - 1>>, <<"cell2addr">>>>

\* The same with the check the code makes for an array of unknown length.
C14CheckByLength(e) ==
  IF e.basesym.length # 0 THEN C14Check(e)
  ELSE <<<<"ffbounds">>, <<IF C14Packed(e) THEN "char2addr" ELSE "cell2addr">>>>

\* The reading of the sub-array offset when the base is no last dimension.
C14SubArray(e) ==
  IF e.basesym.level > 0
    THEN <<<<"pushreg", "PRI">>, <<"rvalue", e.base.val.sym>>, <<"popreg", "ALT">>,
           <<"ob_add">>>>
    ELSE <<>>

C14Subscript(e, check) ==
  OperandCode(e.base) \o <<<<"pushreg", "PRI">>>> \o OperandCode(e.expr) \o check
    \o <<<<"popreg", "ALT">>, <<"ob_add">>>>

\* C14 as stated: the emission is base, pushreg(PRI), index, the bounds check
\* ffbounds(len*(32/CHARBITS)-1) or ffbounds(max-1), char2addr or cell2addr,
\* popreg(ALT), ob_add.
C14_BoundsThenConversion ==
  C14Dynamic => em.trace = C14Subscript(expr, C14Check(expr))

\* C14: the emission is base, pushreg(PRI), index, one bounds check, the
\* address conversion, popreg(ALT), ob_add.  A packed string (string tag,
\* level 0) gets ffbounds(len*(32/CHARBITS)-1) and char2addr, never
\* cell2addr, any other base ffbounds(max-1) and cell2addr, never char2addr;
\* for an array of length 0 the check is the ffbounds() without argument; and
\* for a base of level > 0 the reading of the sub-array offset follows.  The
\* bounds check comes right before the conversion.
C14_BoundsByLengthThenConversion ==
  C14Dynamic =>
    /\ em.trace = C14Subscript(expr, C14CheckByLength(expr)) \o C14SubArray(expr)
    /\ CountOp(em.trace, {"ffbounds"}) = 1
    /\ CountOp(em.trace, {"char2addr"}) = (IF C14Packed(expr) THEN 1 ELSE 0)
    /\ CountOp(em.trace, {"cell2addr"}) = (IF C14Packed(expr) THEN 0 ELSE 1)

\* arr[i] with arr a packed string of 8 cells.
C14_Witness ==
  /\ C14Dynamic
  /\ expr = Index(SymArr("arr"), Var("i"), TRUE, 0, 8)
  /\ em.trace = <<<<"address", "arr", "PRI">>, <<"pushreg", "PRI">>, <<"rvalue", "i">>,
                  <<"ffbounds", 31>>, <<"char2addr">>, <<"popreg", "ALT">>, <<"ob_add">>>>

(***************************************************************************)
(* Properties of Expr::Emit.                                               *)
(***************************************************************************)
\* C15: Emit() of an expression whose value is CONSTEXPR emits the one
\* primitive ldconst(constval, PRI) and does not call DoEmit, so that the
\* assert(false) of the always-constant nodes is reached neither through
\* Emit() nor through EmitTest().
C15_ConstantShortCircuit ==
  /\ (pc = "done" /\ mode.fn = "Emit" /\ expr.val.ident = "CONSTEXPR")
       => em.trace = <<<<"ldconst", expr.val.constval, "PRI">>>>
  /\ (pc = "done" /\ mode.fn \in {"Emit", "EmitTest"})
       => \A i \in 1..Len(em.trace) : em.trace[i] # <<"assert_false">>

\* sizeof, a constant 5.
C15_Witness ==
  /\ pc = "done" /\ mode.fn = "Emit"
  /\ expr.kind = "SizeofExpr"
  /\ em.trace = <<<<"ldconst", 5, "PRI">>>>

(***************************************************************************)
(* The two-register machine: PRI, ALT and the data stack, with the calls   *)
(* of setters it made.  A value is a sequence of names: an object, what a  *)
(* getter read from it, what an operator made of that.  A call leaves junk *)
(* in the registers it does not return a value in.                         *)
(***************************************************************************)
Junk == <<"junk">>

Machine(pri, alt, stack) ==
  [pri |-> pri, alt |-> alt, stack |-> stack, setters |-> <<>>, bad |-> FALSE]

Pop(ms) == [ms EXCEPT !.stack = SubSeq(@, 1, Len(@) - 1)]

Top(ms) == ms.stack[Len(ms.stack)]

MachineStep(ms, ins) ==
  CASE ins = <<"pushreg", "PRI">> -> [ms EXCEPT !.stack = Append(@, ms.pri)]
    [] ins = <<"pushreg", "ALT">> -> [ms EXCEPT !.stack = Append(@, ms.alt)]
    [] ins[1] = "popreg" /\ ms.stack = <<>> -> [ms EXCEPT !.bad = TRUE]
    [] ins = <<"popreg", "PRI">> -> [Pop(ms) EXCEPT !.pri = Top(ms)]
    [] ins = <<"popreg", "ALT">> -> [Pop(ms) EXCEPT !.alt = Top(ms)]
    [] ins = <<"move_alt">> -> [ms EXCEPT !.alt = ms.pri]
    [] ins = <<"moveto1">> -> [ms EXCEPT !.pri = ms.alt]
    [] ins = <<"swap1">> ->
         IF ms.stack = <<>> THEN [ms EXCEPT !.bad = TRUE]
         ELSE [ms EXCEPT !.pri = Top(ms), !.stack[Len(ms.stack)] = ms.pri]
    [] ins = <<"inc_pri">> -> [ms EXCEPT !.pri = <<"inc">> \o @]
    [] ins = <<"dec_pri">> -> [ms EXCEPT !.pri = <<"dec">> \o @]
    [] ins[1] = "userop" -> [ms EXCEPT !.pri = <<ins[2]>> \o @, !.alt = Junk]
    [] ins[1] = "invoke_getter" -> [ms EXCEPT !.pri = <<"get">> \o @, !.alt = Junk]
    [] ins[1] = "invoke_setter" ->
         [ms EXCEPT !.setters = Append(@, [obj |-> ms.alt, value |-> ms.pri]),
                    !.pri = IF ins[3] THEN @ ELSE Junk, !.alt = Junk]
    [] OTHER -> [ms EXCEPT !.bad = TRUE]

RECURSIVE Run(_, _, _)
\* The machine after the instructions k.. of the code.
Run(ms, code, k) ==
  IF k > Len(code) THEN ms ELSE Run(MachineStep(ms, code[k]), code, k + 1)

\* ++ or -- on an ACCESSOR has been emitted.
C16Accessor ==
  /\ pc = "done" /\ mode.fn = "Emit"
  /\ expr.kind \in {"PreIncExpr", "PostIncExpr"}
  /\ expr.expr.val.ident = "ACCESSOR"

\* The machine after the code that follows the operand's, entered with the
\* object reference in PRI.
C16After ==
  Run(Machine(<<"obj">>, <<"alt">>, <<<<"below">>>>), em.trace,
      Len(OperandCode(expr.expr)) + 1)

C16Old == <<"get", "obj">>

C16Updated ==
  <<IF expr.userop # NoSym THEN expr.userop
    ELSE IF expr.token = "tINC" THEN "inc" ELSE "dec">> \o C16Old

\* C16: run on the machine, the code of ++/-- on an ACCESSOR leaves the
\* updated value in PRI for PreIncExpr and the value the getter read in PRI
\* for PostIncExpr; the setter is called once, with ALT the object reference
\* that was in PRI after the operand and PRI the updated value; and the data
\* stack ends at its entry depth.
C16_AccessorIncDec ==
  C16Accessor =>
    /\ ~C16After.bad
    /\ C16After.pri = (IF expr.kind = "PreIncExpr" THEN C16Updated ELSE C16Old)
    /\ C16After.setters = <<[obj |-> <<"obj">>, value |-> C16Updated]>>
    /\ C16After.stack = <<<<"below">>>>

\* obj.prop++
C16_Witness ==
  /\ C16Accessor
  /\ expr.kind = "PostIncExpr" /\ expr.token = "tINC" /\ expr.userop = NoSym
  /\ C16After.pri = <<"get", "obj">>
  /\ C16After.setters = <<[obj |-> <<"obj">>, value |-> <<"inc", "get", "obj">>]>>

(***************************************************************************)
(* Properties of BinaryExpr::DoEmit.                                       *)
(***************************************************************************)
\* An assignment that is no copy of a whole array has been emitted.
C17Assignment ==
  /\ pc = "done" /\ mode.fn = "Emit"
  /\ expr.kind = "BinaryExpr" /\ IsAssignOp(expr.token)
  /\ expr.array_copy_length = 0

\* The code of EmitInner(root, left, right) on its own.
InnerCode(e) ==
  (CHOOSE m \in BinaryExpr_EmitInner(e, e.left, e.right, EmitterInit) : TRUE).trace

\* The destination is pushed, by the claim.
C17Pushed(e) ==
  \/ e.left.val.ident = "ACCESSOR"
  \/ e.left.val.ident \in {"ARRAYCELL", "ARRAYCHAR", "ARRAY", "REFARRAY"} /\ e.oper # NoOper

Opt(cond, ins) == IF cond THEN <<ins>> ELSE <<>>

RECURSIVE Links(_)
\* The comparisons of a left-leaning chain, the leftmost first.
Links(e) ==
  IF e.kind = "BinaryExpr" /\ IsChainedOp(e.token) THEN Links(e.left) \o <<e>> ELSE <<>>

\* The code of EmitInner(root, left, right) on its own.
LinkCode(root, left, right) ==
  (CHOOSE m \in BinaryExpr_EmitInner(root, left, right, EmitterInit) : TRUE).trace

RECURSIVE C18Expected(_, _)
\* The code of the links k.. : each is EmitInner with the right operand of the
\* link before it as left operand, all but the first between relop_prefix and
\* relop_suffix.
C18Expected(links, k) ==
  IF k > Len(links) THEN <<>>
  ELSE Opt(k > 1, <<"relop_prefix">>)
         \o LinkCode(links[k], IF k = 1 THEN links[1].left ELSE links[k - 1].right,
                     links[k].right)
         \o Opt(k > 1, <<"relop_suffix">>)
         \o C18Expected(links, k + 1)

\* The operands e0 .. en of the chain.
C18Operands(links) == <<links[1].left>> \o [k \in 1..Len(links) |-> links[k].right]

C18Chain == pc = "done" /\ mode.fn = "Emit" /\ expr \in ChainInputs

\* C18: for a left-leaning chain of n relational operators the leftmost
\* operand is emitted once, or not at all when it is a constant; EmitInner is
\* then called for the links from left to right, the right operand of a link
\* being the left operand of the next without being emitted again, so that
\* every operand that is no constant is emitted exactly once; and every link
\* but the first is between relop_prefix and relop_suffix, n-1 pairs in all.
C18_ChainedCompare ==
  C18Chain =>
    LET links == Links(expr)
        e0 == links[1].left
        n == Len(links)
    IN /\ em.trace = (IF e0.val.ident = "CONSTEXPR" THEN <<>> ELSE OperandCode(e0))
                       \o C18Expected(links, 1)
       /\ CountOp(em.trace, {"relop_prefix"}) = n - 1
       /\ CountOp(em.trace, {"relop_suffix"}) = n - 1
       /\ \A i \in 1..(n + 1) :
            LET x == C18Operands(links)[i]
            IN Occurrences(em.trace, <<"rvalue", x.val.sym>>)
                 = (IF x.val.ident = "CONSTEXPR" THEN 0 ELSE 1)

\* a < b <= c with variables.
C18_Witness ==
  /\ C18Chain
  /\ expr = Binary("tlLE", "os_le", NoSym,
                   Binary("<", "os_less", NoSym, Var("a"), Var("b")), Var("c"))
  /\ CountOp(em.trace, {"relop_prefix"}) = 1
  /\ Occurrences(em.trace, <<"rvalue", "b">>) = 1

(***************************************************************************)
(* Properties of CallExpr::DoEmit.                                         *)
(***************************************************************************)
\* The code of an argument's expression.
ArgCode(x) == AfterBranch(x, 0).trace

\* What the argument loop emits between an argument's code and its push.
PassNames == {"rvalue", "setheap_pri", "address", "markusage"}

\* The first position after q whose instruction is none of PassNames.
AfterPass(trace, q) ==
  CHOOSE r \in (q + 1)..(Len(trace) + 1) :
    /\ r = Len(trace) + 1 \/ trace[r][1] \notin PassNames
    /\ \A k \in (q + 1)..(r - 1) : trace[k][1] \in PassNames

RECURSIVE C19Walk(_, _, _, _)
\* The position in the trace after the arguments i, i-1, .., 1, the position
\* before them being p: each is its code, then one pushreg(PRI), followed by
\* markexpr iff the argument is no default; -1 when the trace is otherwise.
C19Walk(argv, i, trace, p) ==
  IF i = 0 \/ p < 0 THEN p
  ELSE LET x == argv[i].expr
           code == ArgCode(x)
           q == p + Len(code)
           r == IF x.kind = "DefaultArgExpr" THEN q + 1 ELSE AfterPass(trace, q)
           marked == r < Len(trace) /\ trace[r + 1] = <<"markexpr", "sPARM">>
       IN IF /\ q < Len(trace)
             /\ SubSeq(trace, p + 1, q) = code
             /\ r <= Len(trace)
             /\ trace[r] = <<"pushreg", "PRI">>
             /\ marked <=> x.kind # "DefaultArgExpr"
            THEN C19Walk(argv, i - 1, trace, IF marked THEN r + 1 ELSE r)
            ELSE -1

C19Call == pc = "done" /\ mode.fn = "Emit" /\ expr \in Calls1 \cup Calls2

C19Prologue(e) ==
  IF e.val.sym # NoSym
    THEN <<<<"modheap", e.retsize * CellSize>>, <<"pushreg", "ALT">>,
           <<"markheap", "MEMUSE_STATIC", e.retsize>>, <<"pushheaplist">>>>
    ELSE <<<<"pushheaplist">>>>

C19Epilogue(e) ==
  <<<<"ffcall", e.sym, Len(e.argv)>>>> \o Opt(e.val.sym # NoSym, <<"popreg", "PRI">>)
    \o <<<<"popheaplist", TRUE>>>>

\* C19: a call emits, when it returns an array, modheap, pushreg(ALT) and
\* markheap(MEMUSE_STATIC), then pushheaplist; then the arguments from the
\* last to the first, each visited once: its code, one pushreg(PRI), and
\* markexpr(sPARM) iff it is no default argument; then ffcall(sym, argc) with
\* argc the number of arguments, popreg(PRI) when it returns an array, and
\* popheaplist(true) last.
C19_CallLayout ==
  C19Call =>
    LET pro == C19Prologue(expr)
        epi == C19Epilogue(expr)
        end == C19Walk(expr.argv, Len(expr.argv), em.trace, Len(pro))
    IN /\ SubSeq(em.trace, 1, Len(pro)) = pro
       /\ end >= 0
       /\ SubSeq(em.trace, end + 1, Len(em.trace)) = epi

\* g(a, <default>) returning an array.
C19_Witness ==
  /\ C19Call
  /\ expr.retsize = 2 /\ Len(expr.argv) = 2
  /\ expr.argv[1].expr = Var("a") /\ expr.argv[2].expr.kind = "DefaultArgExpr"
  /\ expr.argv[1].arg.ident = "VARIABLE" /\ expr.argv[2].arg.ident = "VARIABLE"
  /\ em.trace = <<<<"modheap", 8>>, <<"pushreg", "ALT">>, <<"markheap", "MEMUSE_STATIC", 2>>,
                  <<"pushheaplist">>, <<"ldconst", 7, "PRI">>, <<"pushreg", "PRI">>,
                  <<"rvalue", "a">>, <<"pushreg", "PRI">>, <<"markexpr", "sPARM">>,
                  <<"ffcall", "g", 2>>, <<"popreg", "PRI">>, <<"popheaplist", TRUE>>>>

(***************************************************************************)
(* Properties of parse_decl on `NAME [dims] ...`.                          *)
(***************************************************************************)
\* The number of tokens of toks from the second on that are bracketed
\* dimensions: `[` `]` and `[` 5 `]`, repeated.
RECURSIVE DimsEnd(_)
DimsEnd(i) ==
  IF i + 1 <= Len(toks) /\ toks[i].kind = "LBRACKET" /\ toks[i + 1].kind = "RBRACKET"
    THEN DimsEnd(i + 2)
  ELSE IF i + 2 <= Len(toks) /\ toks[i].kind = "LBRACKET" /\ toks[i + 1] = Five
            /\ toks[i + 2].kind = "RBRACKET"
    THEN DimsEnd(i + 3)
  ELSE i

BracketPairs(from, to) ==
  Cardinality({i \in from..(to - 1) : toks[i].kind = "LBRACKET"})

\* parse_decl has returned for NAME, bracketed dimensions and more.
NameThenDims ==
  /\ pc = "done" /\ entry.fn = "parse_decl"
  /\ "Old" \notin entry.flags
  /\ Len(toks) >= 3 /\ toks[1].kind = "NAME" /\ toks[2].kind = "LBRACKET"
  /\ DimsEnd(2) > 2

AfterDims == IF DimsEnd(2) <= Len(toks) THEN toks[DimsEnd(2)].kind ELSE "EOF"

C21NewStyle ==
  /\ ps.decl.spec.resolver = "NAME"
  /\ ps.decl.spec.proxy.name = toks[1].name
  /\ ~ps.decl.spec.hasPostDims
  /\ ps.decl.spec.rank = BracketPairs(2, DimsEnd(2))
  /\ Reported(ps, "FixedArrayInPrefix") = <<>>
  /\ AfterDims = "NAME" => ps.decl.name.name = toks[DimsEnd(2)].name

C21OldStyle ==
  /\ ps.decl.name.name = toks[1].name
  /\ ps.decl.spec.resolver = "INT"
  /\ ps.decl.spec.hasPostDims
  /\ ps.pos = DimsEnd(2) - 1

\* C21: parse_decl on NAME, bracketed dimensions and then NAME or `&` parses
\* new-style: the first NAME is the named type, the post-dims flag is clear,
\* the rank is the number of bracket pairs read (the brackets are not scanned
\* again) and the following NAME is the declared name; with any other token
\* after the brackets the first NAME is the name of an old-style declaration
\* with the post-dims flag set.
C21_NameDimsName ==
  NameThenDims =>
    IF AfterDims \in {"NAME", "AMPERSAND"} THEN C21NewStyle ELSE C21OldStyle

(***************************************************************************)
(* Properties of reparse_decl.                                             *)
(***************************************************************************)
\* statement() has returned a declaration of several variables.
Siblings ==
  /\ pc = "done" /\ entry.fn = "statement"
  /\ ps.node # Null /\ ps.node.kind = "VariableDeclarations"
  /\ Len(ps.node.vars) >= 2

BaseType(spec) == <<spec.resolver, spec.proxy, spec.signature>>

\* C22: every declarator after the first of a comma-separated declaration,
\* old-style or new-style, has the base type (type or tag) and the const flag
\* of the first.
C22_SiblingsShareBaseType ==
  Siblings =>
    \A i \in 2..Len(ps.node.vars) :
      /\ BaseType(ps.node.vars[i].spec) = BaseType(ps.node.vars[1].spec)
      /\ ps.node.vars[i].spec.isConst = ps.node.vars[1].spec.isConst

\* The token before the name of the i-th declarator, and the one after it.
BeforeName(i) == toks[ps.node.vars[i].name.loc - 1].kind

AfterName(i) ==
  IF ps.node.vars[i].name.loc < Len(toks)
    THEN toks[ps.node.vars[i].name.loc + 1].kind ELSE "EOF"

\* The tag of the i-th declarator of an old-style declaration: its own label,
\* or none.
C22OwnTag(i) ==
  LET b == ps.node.vars[i].spec
      loc == ps.node.vars[i].name.loc
  IN IF BeforeName(i) = "COLON"
       THEN b.resolver = "LABEL" /\ b.proxy.name = toks[loc - 2].name
       ELSE b.resolver = "IMPLICIT_INT" /\ b.proxy = Null

\* C22 as the code has it: a new-style declarator after the first has the
\* base type and the const flag of the first, and its array shape is its own
\* when the first had its dimensions after the name, the first's otherwise;
\* an old-style one keeps the const flag only and has its own tag, which is
\* none for a bare name.
C22_NewStyleSiblingsShareBaseType ==
  Siblings =>
    \A i \in 2..Len(ps.node.vars) :
      LET a == ps.node.vars[1].spec
          b == ps.node.vars[i].spec
      IN /\ a.isConst => b.isConst
         /\ IF isNewDecl(a)
              THEN /\ BaseType(b) = BaseType(a)
                   /\ b.isConst = a.isConst
                   /\ IF a.hasPostDims
                        THEN AfterName(i) # "LBRACKET" => b.rank = 0 /\ b.dims = Null
                        ELSE b.rank = a.rank /\ b.dims = a.dims
              ELSE C22OwnTag(i)

\* new Float:a, b has parsed to a of tag Float and b of no tag.
C22_Witness ==
  /\ Siblings
  /\ toks = WordsFrom(<<"NEW", "Float", "COLON", "a", "COMMA", "b">>, 1)
  /\ ps.node.vars[1].spec.resolver = "LABEL"
  /\ ps.node.vars[1].spec.proxy.name = "Float"
  /\ ps.node.vars[2].spec.resolver = "IMPLICIT_INT"
  /\ ps.node.vars[2].name.name = "b"

(***************************************************************************)
(* Properties of Parser::switch_.                                          *)
(***************************************************************************)
\* The positions in toks of the `case` and `default` tokens.
EntryStarts ==
  SelectSeq([i \in 1..Len(toks) |-> i], LAMBDA i : toks[i].kind \in {"CASE", "DEFAULT"})

\* The kinds of the entries of the switch statement toks: "default", "double"
\* for a case of two statements, "case" for any other.
KindsOf ==
  LET starts == EntryStarts
      Until(k) == IF k < Len(starts) THEN starts[k + 1] ELSE Len(toks)
      Semicolons(k) ==
        Cardinality({i \in starts[k]..Until(k) : toks[i].kind = "SEMICOLON"})
  IN [k \in 1..Len(starts) |->
        IF toks[starts[k]].kind = "DEFAULT" THEN "default"
        ELSE IF Semicolons(k) = 2 THEN "double" ELSE "case"]

OnOneLine == \A i \in 1..Len(toks) : toks[i].line = 1

\* The entry is a switch statement of at most MaxCases + 1 entries.
IsSwitch ==
  /\ pc = "done" /\ entry.fn = "statement"
  /\ toks # <<>> /\ toks[1].kind = "SWITCH"
  /\ Len(EntryStarts) <= MaxCases + 1
  /\ toks = WordsFrom(SwitchWords(KindsOf, OnOneLine), 1)

DefaultBefore(kinds, k) == \E j \in 1..(k - 1) : kinds[j] = "default"

\* What switch_ finds wrong with the k-th entry, "none" if nothing.
Offence(kinds, k) ==
  IF DefaultBefore(kinds, k)
    THEN (IF kinds[k] = "default" THEN "OneDefaultPerSwitch" ELSE "DefaultMustBeLastCase")
  ELSE IF kinds[k] = "double" THEN "SingleStatementPerCase"
  ELSE "none"

\* The first entry with an offence, Len(kinds) + 1 if there is none.
FirstOffence(kinds) ==
  IF \E k \in 1..Len(kinds) : Offence(kinds, k) # "none"
    THEN CHOOSE k \in 1..Len(kinds) :
           /\ Offence(kinds, k) # "none"
           /\ \A j \in 1..(k - 1) : Offence(kinds, j) = "none"
    ELSE Len(kinds) + 1

SwitchDiagnostics == {"OneDefaultPerSwitch", "DefaultMustBeLastCase", "SingleStatementPerCase"}

\* The entries of kinds that are cases, in order.
CasesOf(kinds) ==
  SelectSeq([k \in 1..Len(kinds) |-> k], LAMBDA k : kinds[k] # "default")

C23Rejected(kinds) ==
  LET code == Offence(kinds, FirstOffence(kinds))
  IN /\ ps.node = Null
     /\ Len(Reported(ps, code)) = 1
     /\ \A other \in SwitchDiagnostics \ {code} : Reported(ps, other) = <<>>

C23Accepted(kinds) ==
  LET at == CasesOf(kinds)
  IN /\ \A code \in SwitchDiagnostics : Reported(ps, code) = <<>>
     /\ ps.node # Null
     /\ ps.node.kind = "SwitchStatement"
     /\ Len(ps.node.cases) = Len(at)
     /\ \A i \in 1..Len(at) :
          /\ ps.node.cases[i].expr.kind = "IntegerLiteral"
          /\ ps.node.cases[i].expr.pos = NthOf("CASE", i) + 1
          /\ ps.node.cases[i].stmt.expr.callee.name = OperandNames[at[i]]
     /\ (ps.node.defaultCase # Null) <=> (\E k \in 1..Len(kinds) : kinds[k] = "default")

\* C23: switch_ stops at the first of: a second `default` (OneDefaultPerSwitch),
\* a `case` after a `default` (DefaultMustBeLastCase), a case whose statement
\* is followed by another statement (SingleStatementPerCase); it then has
\* reported exactly one diagnostic of that kind, none of the other two, and
\* returns no node.  A switch with none of the three returns a
\* SwitchStatement whose cases are in source order.
C23_SwitchDiagnostics ==
  IsSwitch =>
    IF FirstOffence(KindsOf) <= Len(KindsOf)
      THEN C23Rejected(KindsOf) ELSE C23Accepted(KindsOf)

\* switch (k) { case 1: a(); default: b(); case 2: c(); } over several lines
\* has reported DefaultMustBeLastCase, and nothing else.
C23_Witness ==
  /\ IsSwitch /\ KindsOf = <<"case", "default", "case">> /\ ~OnOneLine
  /\ ps.node = Null
  /\ Len(ps.diags) = 1
  /\ ps.diags[1].code = "DefaultMustBeLastCase"

(***************************************************************************)
(* Properties of Parser::ternary.                                          *)
(***************************************************************************)
\* The calls of expression() recorded for the operand of ternary().
OperandCalls(which) == {i \in 1..Len(ps.calls) : ps.calls[i].fn = which}

EnteredWith(i) == "AllowTags" \in ps.calls[i].flags

\* C24: label recognition is off while the operand between `?` and `:` is
\* parsed, and at the setting ternary() was entered with while the operand
\* after `:` is parsed and after ternary() has returned, whether it failed or
\* not.
C24_TagsOffForMiddleOnly ==
  (pc = "done" /\ entry.fn = "expression") =>
    /\ \A i \in OperandCalls("middle") : ~ps.calls[i].tags
    /\ \A i \in OperandCalls("right") : ps.calls[i].tags = EnteredWith(i)
    /\ ps.tags = entry.tags

(***************************************************************************)
(* Termination of the parser's loops.                                      *)
(***************************************************************************)
\* C26: parse() terminates on every finite token stream, the scanner
\* returning EOF forever at its end: every pass of a loop that does not leave
\* the loop consumes a token that is not EOF.  Here for the loop of struct_,
\* on structs and unions that are closed or cut off inside the body.
C26_EveryPassConsumes ==
  [][(pc = "loop" /\ pc' = "loop") => ps'.pos > ps.pos]_vars

(***************************************************************************)
(* The scanner's one-token rewind.                                         *)
(***************************************************************************)
\* C27: the parser keeps to the scanner's one-token rewind: on no path is
\* undo() called twice without a next() in between (statement()'s declaration
\* sniffing and parse_decl's lookahead included).
C27_OneTokenRewind ==
  entry.fn = "statement" => ~ps.undoTwice

(***************************************************************************)
(* Operand children of expression nodes.                                   *)
(***************************************************************************)
\* The operand children of an expression node, in source order.
OperandsOf(n) ==
  CASE n.kind \in {"BinaryExpression", "Assignment", "IndexExpression"} -> <<n.left, n.right>>
    [] n.kind \in {"UnaryExpression", "IncDecExpression"} -> <<n.expr>>
    [] n.kind = "TernaryExpression" -> <<n.cond, n.left, n.right>>
    [] n.kind = "CallExpression" -> <<n.callee>> \o n.arguments
    [] n.kind = "ArrayLiteral" -> n.expressions
    [] OTHER -> <<>>

RECURSIVE OperandsPresent(_)
OperandsPresent(n) ==
  \A i \in DOMAIN OperandsOf(n) :
    OperandsOf(n)[i] # Null /\ OperandsPresent(OperandsOf(n)[i])

\* C28: every expression node returned by the expression productions has
\* non-null operand children, at every depth: a production whose operand
\* failed to parse returns null instead of building a node around it.
C28_OperandsPresent ==
  (pc = "done" /\ entry.fn \in {"expression", "relational"} /\ ps.node # Null)
    => OperandsPresent(ps.node)

(***************************************************************************)
(* Array literals.                                                         *)
(***************************************************************************)
\* The stream is a brace list of names: { e1, ..., en } with an optional
\* trailing comma.
IsBraceList ==
  /\ Len(toks) >= 2
  /\ toks[1].kind = "LBRACE"
  /\ toks[Len(toks)].kind = "RBRACE"
  /\ \A i \in 2..(Len(toks) - 1) :
       toks[i].kind = IF i % 2 = 0 THEN "NAME" ELSE "COMMA"

\* The names of the elements written between the braces, in source order.
BraceElements == [i \in 1..(Len(toks) - 1) \div 2 |-> toks[2 * i].name]

\* C29: the ArrayLiteral returned for { e1, e2, ..., en } holds exactly the n
\* element expressions parsed between the braces, in source order.
C29_LiteralElements ==
  (pc = "done" /\ entry.fn = "expression" /\ IsBraceList)
    => /\ ps.node # Null
       /\ ps.node.kind = "ArrayLiteral"
       /\ Len(ps.node.expressions) = Len(BraceElements)
       /\ \A i \in DOMAIN BraceElements :
            /\ ps.node.expressions[i].kind = "NameProxy"
            /\ ps.node.expressions[i].name = BraceElements[i]

(***************************************************************************)
(* Execution of the code of a logical expression.                          *)
(***************************************************************************)
Assignments == [{"a", "b", "c"} -> BOOLEAN]

RECURSIVE Truth(_, _)
\* The value of a tree of && and || over variables, short-circuit or not.
Truth(e, env) ==
  IF e.kind = "LogicalExpr"
    THEN IF e.token = "tlOR" THEN Truth(e.left, env) \/ Truth(e.right, env)
         ELSE Truth(e.left, env) /\ Truth(e.right, env)
    ELSE env[e.val.sym]

\* The position of setlabel(label) in the code, 0 if the label is never set.
LabelAt(code, label) ==
  IF \E k \in 1..Len(code) : code[k] = <<"setlabel", label>>
    THEN CHOOSE k \in 1..Len(code) : code[k] = <<"setlabel", label>>
    ELSE 0

RECURSIVE Exec(_, _, _, _)
\* PRI after the code is run from instruction k with the variables as in env;
\* -1 when a jump leaves the code or an instruction is none of the test's.
Exec(code, k, pri, env) ==
  IF k > Len(code) THEN pri
  ELSE LET ins == code[k]
           Jump(label) ==
             IF LabelAt(code, label) > k THEN Exec(code, LabelAt(code, label), pri, env)
             ELSE -1
       IN CASE ins[1] = "rvalue" -> Exec(code, k + 1, IF env[ins[2]] THEN 1 ELSE 0, env)
            [] ins[1] = "ldconst" -> Exec(code, k + 1, ins[2], env)
            [] ins[1] = "setlabel" -> Exec(code, k + 1, pri, env)
            [] ins[1] = "jumplabel" -> Jump(ins[2])
            [] ins[1] = "jmp_ne0" ->
                 IF pri # 0 THEN Jump(ins[2]) ELSE Exec(code, k + 1, pri, env)
            [] ins[1] = "jmp_eq0" ->
                 IF pri = 0 THEN Jump(ins[2]) ELSE Exec(code, k + 1, pri, env)
            [] OTHER -> -1

\* C25: for every tree of && and || over variables and every assignment of
\* truth values to them, running the code emitted by LogicalExpr::DoEmit
\* leaves 1 in PRI iff the expression is true and 0 otherwise.
C25_LogicalValue ==
  (pc = "done" /\ mode.fn = "Emit" /\ expr \in LogicInputs) =>
    \A env \in Assignments :
      Exec(em.trace, 1, 0, env) = (IF Truth(expr, env) THEN 1 ELSE 0)

(***************************************************************************)
(* The data stack.                                                         *)
(***************************************************************************)
\* What an instruction does to the number of pushed values: pushreg adds
\* one, popreg takes one, ffcall consumes the argc arguments of its call.
StackDelta(ins) ==
  CASE ins[1] = "pushreg" -> 1
    [] ins[1] = "popreg" -> -1
    [] ins[1] = "ffcall" -> -ins[3]
    [] OTHER -> 0

RECURSIVE StackDepth(_, _)
\* The number of pushed values after the first k instructions.
StackDepth(trace, k) ==
  IF k = 0 THEN 0 ELSE StackDepth(trace, k - 1) + StackDelta(trace[k])

RECURSIVE SumArgc(_, _)
\* The arguments of all calls among the first k instructions.
SumArgc(trace, k) ==
  IF k = 0 THEN 0
  ELSE SumArgc(trace, k - 1) + (IF trace[k][1] = "ffcall" THEN trace[k][3] ELSE 0)

\* C30: the emission of an expression is balanced on the data stack: it
\* issues as many pushreg as popreg, except for the argc values each call
\* leaves for its ffcall, and no popreg (and no ffcall) finds fewer pushed
\* values than it takes.
C30_StackBalance ==
  pc = "done"
    => /\ CountOp(em.trace, {"pushreg"})
            = CountOp(em.trace, {"popreg"}) + SumArgc(em.trace, Len(em.trace))
       /\ \A k \in 1..Len(em.trace) : StackDepth(em.trace, k) >= 0
       /\ StackDepth(em.trace, Len(em.trace)) = 0

\* A call that returns an array and takes two arguments: the hidden
\* parameter and both arguments are pushed, the call consumes the two.
C30_Witness ==
  /\ pc = "done"
  /\ expr.kind = "CallExpr" /\ expr.retsize > 0 /\ Len(expr.argv) = 2
  /\ CountOp(em.trace, {"pushreg"}) >= 3
  /\ CountOp(em.trace, {"popreg"}) >= 1

====
